---------------------------- MODULE Spec2Model ----------------------------
(***************************************************************************)
(* Motion-control device layer of komcat/Project4.                         *)
(*                                                                         *)
(* Two controller families (PIController: 6-axis stage, ACSController:     *)
(* 3-axis gantry) each own one hardware session, one background poll       *)
(* thread and a cache; two managers (PIControllerManagerStandardized,      *)
(* ACSControllerManagerStandardized) own named controllers.                *)
(*                                                                         *)
(* The module holds several specifications over one set of variables:      *)
(*   SpecLife  one controller: Connect / Disconnect against its poll loop  *)
(*   SpecMove  one connected controller: non-blocking moves, IsMoving      *)
(*   SpecBlock one connected controller: blocking moves and their wait     *)
(*   SpecWait  WaitForMotionCompletion on an axis that keeps moving        *)
(*   SpecMgr   one manager: Initialize, ConnectAll, DisconnectAll, ...     *)
(*   SpecCfg   one manager over configurations of any records              *)
(*   SpecReg   the stage manager's registry under two calling threads      *)
(*   SpecStop  one controller: stop request, destructor, m_mutex            *)
(*   SpecStopLive  SpecStop with the poll thread scheduled fairly           *)
(*   SpecReload    one manager: Initialize against an edited configuration  *)
(*   SpecSource    one manager over a configuration source that may fail    *)
(*   SpecQueue     the gantry controller's pending-command queue            *)
(*   SpecQueueLive SpecQueue with the poll thread scheduled fairly          *)
(*   SpecIdle      one stage controller: waits on an axis that is idle      *)
(*   SpecApp       the application: hardware thread against Cleanup         *)
(*   SpecMock      the stage manager in mock mode and its device registry   *)
(*   SpecMotion    one controller: stop, home, scan and servo commands      *)
(*   SpecMulti     one controller: moves of several axes at once            *)
(* A specification leaves the variables of the other parts unchanged.      *)
(* Times are in milliseconds.                                              *)
(***************************************************************************)
EXTENDS Integers, Sequences, FiniteSets, TLC

VARIABLES
  \* ---- one controller object
  family,             \* "PI" or "ACS": which controller class the object is
  m_availableAxes,    \* std::vector<std::string> m_availableAxes
  callsLeft,          \* number of motion commands and status queries the
                      \* calling thread goes on to call on the controller
  m_isConnected,      \* std::atomic<bool> m_isConnected
  m_threadRunning,    \* std::atomic<bool> m_threadRunning
  m_terminateThread,  \* std::atomic<bool> m_terminateThread
  m_controllerId,     \* session handle held by the controller, -1 = invalid
  m_axisPositions,    \* std::map<std::string,double> m_axisPositions
  m_axisMoving,       \* std::map<std::string,bool> m_axisMoving
  m_axisServoEnabled, \* std::map<std::string,bool> m_axisServoEnabled
  statusAge,          \* now - m_lastStatusUpdate, saturated at m_statusUpdateInterval
  \* ---- its poll thread
  pollPc,             \* position of the communication thread
  frameCounter,       \* frameCounter of the poll loop, kept modulo FrameMod
  pollPositions,      \* local 'positions' of the poll cycle (empty when unset)
  pollMoving,         \* local isMovingArray of the poll cycle (empty when unset)
  pollAxis,           \* position of the poll cycle's loop over axes, 0 outside one
  pollFlag,           \* local 'moving' / 'enabled' of the poll cycle's loop over axes
  \* ---- the vendor side
  hwSession,          \* "open" or "closed"
  hwPos,              \* position of each hardware axis
  hwMotion,           \* "idle", "accepted" (command taken, status not yet moving), "moving"
  hwTarget,           \* target of the motion in progress
  hwServo,            \* whether the servo of each hardware axis is enabled
  \* ---- the calling thread
  callerPc,           \* position of the calling thread inside an operation
  callAxis,           \* axis argument of the operation in progress
  callBlocking,       \* blocking argument of the move in progress
  callOp,             \* operation in progress
  callTarget,         \* position the move in progress was sent to
  callPositions,      \* local position map of the operation in progress
  callSuccess,        \* local 'success' of the operation in progress
  waitTimeout,        \* timeoutSeconds of the wait in progress, in ms
  waitElapsed,        \* currentTime - startTime of the wait in progress
  checkCount,         \* checkCount of the wait in progress
  stillMoving,        \* stillMoving of the wait in progress
  waitAxes,           \* axes the loop in progress over an axis list has yet to visit
  lastOp,             \* operation that returned last ("busy" while one runs)
  lastAxis,           \* its axis argument
  lastBlocking,       \* its blocking argument
  lastRet,            \* its return value: "true", "false" or "void"
  lastTarget,         \* the position a returned move was sent to, -1 when none
  \* ---- observations
  pollCallOnClosed,   \* a poll-cycle hardware call was issued on a closed session
  closedWhileAlive,   \* the session was closed while the poll thread was alive
  moveFresh,          \* axis of a non-blocking move that just returned true
  preConnected,       \* the last operation was Connect, called when connected
  openIssued,         \* the last operation was Connect and issued the vendor open call
  preFresh,           \* the last operation directly followed a non-blocking move
                      \* that returned true on its axis, the motion unfinished
  preDisconnect,      \* "none", or IsConnected() when the last operation, a
                      \* Disconnect, was called: "connected" / "disconnected"
  hwIssued,           \* vendor commands the last Disconnect or move has
                      \* issued, in order, each with what it reported
  \* ---- one device manager
  mgrKind,            \* "ACS": ACSControllerManagerStandardized; "PIhw" / "PImock":
                      \* PIControllerManagerStandardized with m_hardwareMode true / false
  cfgEnabled,         \* isEnabled of each device record of the configuration
  cfgType,            \* typeController of each device record: "PI" or "ACS"
  cfgAxes,            \* installAxes of each device record, a string of characters
  openOk,             \* whether the session open of each device succeeds
  stopOk,             \* whether StopAllAxes of each device succeeds
  cfgSource,          \* the configuration source: "ok"; "empty": the file is
                      \* missing or unreadable and GetConfig returns empty
                      \* JSON; "throws": GetAllDevices throws
  m_isInitialized,
  m_deviceConfigs,    \* per name the manager holds a record for: the
                      \* record's isEnabled
  m_deviceNames,      \* gantry manager: the names GetDeviceNames() returns
  m_mockDeviceNames,  \* stage manager: std::vector<std::string> m_mockDeviceNames
  m_mockConnectionStates, \* stage manager: std::vector<bool> m_mockConnectionStates
  m_controllers,      \* names the manager holds a controller object for
                      \* (m_controllers / m_realDevices; none in mock mode)
  devConnected,       \* m_isConnected of the controller registered under each name
  devState,           \* of the controller registered under each name: whether
                      \* its poll thread runs and whether Connect has written
                      \* its cache; "none" where no controller is registered
  m_devicesMutex,     \* "free" or "held" by the calling thread
  mgrPc,              \* where the calling thread is in the manager
  mgrTodo,            \* entries the running loop has yet to visit
  allSuccess,         \* local of ConnectAll / DisconnectAll
  mgrLastOp,          \* last manager operation that ended
  mgrLastRet,         \* "true", "false", or "thrown" when it ended by an exception
  connectCalls,       \* Connect calls made on each controller by the last ConnectAll
  disconnectCalls,    \* Disconnect calls made on each controller by the last DisconnectAll
  wasConnected,       \* the entries connected when the last DisconnectAll was
                      \* called; the entry, if connected, when DisconnectDevice was
  mgrDev,             \* device the last ConnectDevice / DisconnectDevice named, else 0
  \* ---- the stage manager's registry under several calling threads
  m_realDevices,      \* per name: the controller object its unique_ptr owns, 0 = no entry
  destroyed,          \* the controller objects that have been destroyed
  thrPc,              \* where each calling thread is in its manager operation
  thrDev,             \* the device name each thread's operation was called with
  thrPtr,             \* the PIController* each thread holds, 0 = nullptr
  thrCfg,             \* the PIDeviceConfig* each thread holds: "none", "live",
                      \* or "freed" once the map node it points to was erased
  usedAfterFree,      \* a thread has dereferenced a destroyed controller or an
                      \* erased configuration record
  \* ---- the controller's m_mutex, condition variable and lifetime
  m_mutex,            \* std::mutex m_mutex: "free", or held by "poll" / "caller"
  alive,              \* "alive", "erasing" (its manager's DestroyRealDevice has
                      \* begun), "destroying" (in the destructor) or "destroyed"
  sleptAfterStop,     \* the poll loop's wait ran into its timeout although the
                      \* stop request had been made
  \* ---- the order of hardware readings and cache writes
  sentSinceSample,    \* axis of a move command sent after the poll cycle took
                      \* the status reading it has yet to write, else "none"
  seedRace,           \* "sampled": the poll cycle read positions after Connect
                      \* took its reading, which it has yet to write;
                      \* "written": and has written them; else "none"
  \* ---- the gantry controller's pending-command queue
  m_commandQueue,     \* std::vector<MotorCommand>: id, axis, executed
  m_commandMutex,     \* std::mutex m_commandMutex: "free" or held by "poll"
  appended,           \* number of commands appended so far; the id of a
                      \* command is its rank among them
  executedLog,        \* the MoveRelative calls the poll loop has made for
                      \* queued commands, in order: id, and whether the move
                      \* was sent to the hardware
  \* ---- the application that owns the manager
  cleanupPc,          \* Application::Cleanup on the main thread: "none" (not
                      \* called), "stopped" (StopAllDevices done), "discAll"
                      \* (inside DisconnectAll), "disconnected" (DisconnectAll
                      \* done), "released" (the manager pointer reset)
  cleanupTodo,        \* entries the loop of Cleanup's DisconnectAll has yet to visit
  hwThreadPc          \* the detached hardwareThread: "unborn", "born" (before
                      \* if (manager)), "calling" (the pointer was seen set:
                      \* ConnectAll is called and run), "done" (nothing to call)

namesVars == <<m_deviceNames, m_mockDeviceNames, m_mockConnectionStates>>
mgrVars  == <<mgrKind, cfgEnabled, cfgType, cfgAxes, openOk, stopOk, cfgSource,
              m_isInitialized, m_deviceConfigs, namesVars,
              m_controllers, devConnected, devState, m_devicesMutex, mgrPc, mgrTodo,
              allSuccess, mgrLastOp, mgrLastRet, connectCalls, disconnectCalls,
              wasConnected, mgrDev>>
regVars  == <<m_realDevices, destroyed, thrPc, thrDev, thrPtr, thrCfg,
              usedAfterFree>>
selfVars == <<family, m_availableAxes, callsLeft>>
stopVars == <<m_mutex, alive, sleptAfterStop>>
raceVars == <<sentSinceSample, seedRace>>
queueVars == <<m_commandQueue, m_commandMutex, appended, executedLog>>
appVars  == <<cleanupPc, cleanupTodo, hwThreadPc>>
ownVars  == <<selfVars, regVars, stopVars, raceVars, queueVars, appVars>>
ctlRest  == <<selfVars, regVars, stopVars, queueVars, appVars, mgrVars>>
ctlVars  == <<ownVars, mgrVars>>
connVars == <<m_isConnected, m_controllerId, hwSession>>
thrVars  == <<m_threadRunning, m_terminateThread>>
cacheVars == <<m_axisPositions, m_axisMoving, m_axisServoEnabled, statusAge>>
pollVars == <<pollPc, frameCounter, pollPositions, pollMoving, pollAxis, pollFlag>>
hwVars   == <<hwPos, hwMotion, hwTarget, hwServo>>
callVars == <<callerPc, callAxis, callBlocking, callOp, callTarget,
              callPositions, callSuccess>>
waitVars == <<waitTimeout, waitElapsed, checkCount, stillMoving, waitAxes>>
retVars  == <<lastOp, lastAxis, lastBlocking, lastRet, lastTarget>>
preVars  == <<preConnected, openIssued, preFresh, preDisconnect, hwIssued>>
obsVars  == <<pollCallOnClosed, closedWhileAlive, moveFresh, preVars>>

unitVars == <<ownVars, connVars, thrVars, cacheVars, pollVars, hwVars,
              callVars, waitVars, retVars, obsVars>>
devVars == <<ctlVars, connVars, thrVars, cacheVars, pollVars, hwVars,
             callVars, waitVars, retVars, obsVars>>

-----------------------------------------------------------------------------
(* Bounds of the model *)

\* hardware positions range over 0..MaxPos
MaxPos == 1

\* the blocking moves, or the stop, home, servo, scan and multi-axis
\* commands, called in a run
MaxMotionCalls == 1

\* the single-axis moves and IsMoving queries called in a run
MaxMoveCalls == 2

\* the time, in ms, the calling thread lets pass between two operations
TickMs == 200

\* number of device records in the configuration
NumDevices == 3

\* timeout, in ms, a blocking move's wait runs with: the default argument of
\* WaitForMotionCompletion, which the wait of a blocking move never reaches
\* within MaxBlockingWaitMs
DefaultTimeoutMs == 0

\* largest timeout, in half seconds, WaitForMotionCompletion is called with
MaxTimeoutHalfSec == 1

\* number of controller objects the registry's threads create
MaxObjects == 2

\* longest installAxes string, in characters, of a configuration record
MaxAxesLen == 3

\* longest time, in ms, a blocking move's wait is followed for: the motions
\* of blocking moves end within it
MaxBlockingWaitMs == 100

-----------------------------------------------------------------------------
(* Program constants *)

Families == {"PI", "ACS"}

\* frameCounter % 3 == 0 selects the slow status refresh
FrameMod == 3

\* the invalid handle: m_controllerId(-1) / ACSC_INVALID
InvalidId == -1

\* the handle a successful open returns
ValidId == 1

\* staleness window of cached status, "less than 200ms old"
m_statusUpdateInterval == 200

\* std::this_thread::sleep_for(std::chrono::milliseconds(50)) in the wait loop
WaitSleepMs == 50

\* poll interval: updateInterval of the communication thread
UpdateIntervalMs(f) == IF f = "PI" THEN 50 ELSE 200

\* axes the vendor controller has and the batch queries name
HwAxes(f) == IF f = "PI" THEN {"X", "Y", "Z", "U", "V", "W"} ELSE {"X", "Y", "Z"}

\* m_availableAxes set by the constructor
DefaultAxes(f) ==
  IF f = "PI" THEN <<"X", "Y", "Z", "U", "V", "W">> ELSE <<"X", "Y", "Z">>

\* an axis name no controller has
UnknownAxis == "Q"

EmptyMap == [a \in {} |-> FALSE]

Min(a, b) == IF a < b THEN a ELSE b
Range(s) == {s[i] : i \in DOMAIN s}

\* std::map operator[] assignment
Put(m, k, v) == [a \in (DOMAIN m) \cup {k} |-> IF a = k THEN v ELSE m[a]]

\* passage of d ms as seen by the staleness test
Aged(age, d) == Min(age + d, m_statusUpdateInterval)

\* what the vendor status query reports for an axis
HwReportsMoving(a) == hwMotion[a] = "moving"

\* a bool as the recorded return value
Ret(b) == IF b THEN "true" ELSE "false"

\* a vendor call can succeed only on an open session, reached through the
\* handle the open call returned
CanSucceed(ok) == ok => (hwSession = "open" /\ m_controllerId = ValidId)

-----------------------------------------------------------------------------
(* The gantry family's IsMoving as a function of the cache and of the       *)
(* vendor's answer.  ok: the vendor call succeeds.  Result: ret, the new    *)
(* m_axisMoving, the new statusAge, and called (a vendor call was issued).  *)

\* ACSController::GetAxisIndex(axis) >= 0
ACS_GetAxisIndexValid(a) == a \in {"X", "Y", "Z"}

\* ACSController::IsMoving run without another thread in between; d: how long
\* the vendor call took
ACS_IsMoving(a, ok, conn, map, age, d) ==
  IF ~conn
    THEN [ret |-> FALSE, map |-> map, age |-> age, called |-> FALSE]
  ELSE IF age < m_statusUpdateInterval /\ a \in DOMAIN map
    THEN [ret |-> map[a], map |-> map, age |-> age, called |-> FALSE]
  ELSE IF ~ACS_GetAxisIndexValid(a)
    THEN [ret |-> FALSE, map |-> map, age |-> age, called |-> FALSE]
  ELSE IF ~ok
    THEN [ret |-> FALSE, map |-> map, age |-> age, called |-> TRUE]
  ELSE [ret |-> HwReportsMoving(a), map |-> Put(map, a, HwReportsMoving(a)),
        age |-> Aged(0, d), called |-> TRUE]

\* the servo state the vendor reports for an axis
HwServoOn(a) == hwServo[a]

\* for (const auto& axis : { "X", "Y", "Z" }) in the gantry poll cycle
ACS_PollAxes == <<"X", "Y", "Z">>

\* what GetPositions leaves in the caller's map when it succeeds.  Stage
\* family: PI_qPOS("X Y Z U V W"), one entry per name queried.  Gantry family:
\* posArray[i] is read for X, Y, Z in this order and stored under
\* m_availableAxes[i], i = 0, 1, 2 (a later i overwrites an equal name); the
\* code reads past the end of a list of fewer than three names, and the
\* gantry controllers here have three.
GetPositions(f, axes) ==
  IF f = "PI" THEN [a \in HwAxes("PI") |-> hwPos[a]]
  ELSE [a \in {axes[i] : i \in 1..3} |->
          LET i == CHOOSE k \in 1..3 :
                     axes[k] = a /\ \A j \in 1..3 : axes[j] = a => j <= k
          IN  hwPos[ACS_PollAxes[i]]]

-----------------------------------------------------------------------------
(* Poll thread: PIController::CommunicationThreadFunc and                   *)
(* ACSController::CommunicationThreadFunc.  A step is one vendor call or    *)
(* one section under std::lock_guard<std::mutex> lock(m_mutex); a section   *)
(* starts when the mutex is free.                                           *)

ThreadAlive == pollPc # "exited"

\* a hardware call issued by the poll cycle with the handle it holds
PollHwCall(called) ==
  pollCallOnClosed' = (pollCallOnClosed \/ (called /\ hwSession # "open"))

\* the loop over axes goes on at its next axis (pc again) or, after the last
\* of n axes, leaves for pc done; the local flag of the iteration ends with it
PollNextAxis(n, again, done) ==
  /\ pollFlag' = FALSE
  /\ IF pollAxis < n
       THEN pollAxis' = pollAxis + 1 /\ pollPc' = again
       ELSE pollAxis' = 0 /\ pollPc' = done

\* how long the vendor takes to answer a status query: no time to speak of,
\* or the staleness window and more
VendorCallMs == {0, m_statusUpdateInterval}

\* m_lastStatusUpdate = now, where now was read before the vendor call was
\* made: the status is as old as the call was long
StampedBeforeCall == \E d \in VendorCallMs : statusAge' = Aged(0, d)

\* ACSController::CommunicationThreadFunc before its loop:
\* m_lastStatusUpdate = now; m_lastPositionUpdate = m_lastStatusUpdate; both
\* written with no lock
PollPrologue ==
  /\ pollPc = "start"
  /\ pollPc' = "top"
  /\ statusAge' = 0
  /\ UNCHANGED <<frameCounter, pollPositions, pollMoving, pollAxis, pollFlag>>
  /\ UNCHANGED <<m_axisPositions, m_axisMoving, m_axisServoEnabled>>
  /\ UNCHANGED <<ctlVars, connVars, thrVars, hwVars, callVars, waitVars,
                 retVars, obsVars>>

\* while (!m_terminateThread) { if (m_isConnected) { frameCounter++;
PollTop ==
  /\ pollPc = "top"
  /\ IF m_terminateThread
       THEN /\ pollPc' = "exited"
            /\ frameCounter' = frameCounter
       ELSE IF m_isConnected
       THEN /\ frameCounter' = (frameCounter + 1) % FrameMod
            /\ pollPc' = "posCall"
       ELSE /\ frameCounter' = frameCounter
            /\ pollPc' = "sleep"
  /\ UNCHANGED <<pollPositions, pollMoving, pollAxis, pollFlag>>
  /\ UNCHANGED <<ctlVars, connVars, thrVars, cacheVars, hwVars, callVars,
                 waitVars, retVars, obsVars>>

\* GetPositions(positions): if (!m_isConnected || m_availableAxes.empty())
\* return false, with no vendor call; else PI_qPOS("X Y Z U V W") /
\* acsc_GetFPosition for X, Y, Z, and on success the local map is filled
PollPositionsCall ==
  /\ pollPc = "posCall"
  /\ IF ~m_isConnected \/ m_availableAxes = <<>>
       THEN /\ pollPc' = "stCall"
            /\ UNCHANGED <<pollPositions, seedRace, pollCallOnClosed>>
       ELSE /\ \E ok \in BOOLEAN :
                 /\ CanSucceed(ok)
                 /\ IF ok
                      THEN /\ pollPositions' = GetPositions(family, m_availableAxes)
                           /\ pollPc' = "posWrite"
                           /\ seedRace' = IF callerPc = "connSeedWrite" /\ seedRace = "none"
                                            THEN "sampled" ELSE seedRace
                      ELSE /\ pollPositions' = pollPositions
                           /\ pollPc' = "stCall"
                           /\ seedRace' = seedRace
            /\ PollHwCall(TRUE)
  /\ UNCHANGED <<frameCounter, pollMoving, pollAxis, pollFlag, sentSinceSample>>
  /\ UNCHANGED <<closedWhileAlive, moveFresh, preVars>>
  /\ UNCHANGED <<ctlRest, connVars, thrVars, cacheVars, hwVars, callVars,
                 waitVars, retVars>>

\* lock(m_mutex); m_axisPositions = positions;
PollPositionsWrite ==
  /\ pollPc = "posWrite"
  /\ m_mutex = "free"
  /\ m_axisPositions' = pollPositions
  /\ pollPositions' = EmptyMap
  /\ pollPc' = "stCall"
  /\ seedRace' = IF seedRace = "sampled" THEN "written" ELSE seedRace
  /\ UNCHANGED <<frameCounter, pollMoving, pollAxis, pollFlag, sentSinceSample>>
  /\ UNCHANGED <<m_axisMoving, m_axisServoEnabled, statusAge>>
  /\ UNCHANGED <<ctlRest, connVars, thrVars, hwVars, callVars, waitVars,
                 retVars, obsVars>>

\* stage family: PI_IsMoving(m_controllerId, "X Y Z U V W", isMovingArray), every frame
PI_PollMovingCall ==
  /\ pollPc = "stCall"
  /\ family = "PI"
  /\ \E ok \in BOOLEAN :
       /\ CanSucceed(ok)
       /\ IF ok
            THEN /\ pollMoving' = [a \in HwAxes("PI") |-> HwReportsMoving(a)]
                 /\ pollPc' = "stWrite"
            ELSE /\ pollMoving' = pollMoving
                 /\ pollPc' = "servo"
  /\ PollHwCall(TRUE)
  /\ UNCHANGED <<frameCounter, pollPositions, pollAxis, pollFlag>>
  /\ UNCHANGED <<closedWhileAlive, moveFresh, preVars>>
  /\ UNCHANGED <<ctlVars, connVars, thrVars, cacheVars, hwVars, callVars,
                 waitVars, retVars>>

\* stage family: lock(m_mutex); m_axisMoving[axisNames[i]] = isMovingArray[i] for all six
PI_PollMovingWrite ==
  /\ pollPc = "stWrite"
  /\ family = "PI"
  /\ m_mutex = "free"
  /\ m_axisMoving' = [a \in (DOMAIN m_axisMoving) \cup (DOMAIN pollMoving) |->
                        IF a \in DOMAIN pollMoving THEN pollMoving[a]
                        ELSE m_axisMoving[a]]
  /\ pollMoving' = EmptyMap
  /\ pollPc' = "servo"
  /\ sentSinceSample' = "none"
  /\ UNCHANGED <<frameCounter, pollPositions, pollAxis, pollFlag, seedRace>>
  /\ UNCHANGED <<m_axisPositions, m_axisServoEnabled, statusAge>>
  /\ UNCHANGED <<ctlRest, connVars, thrVars, hwVars, callVars, waitVars,
                 retVars, obsVars>>

\* what a step of the poll cycle's loops over axes leaves alone
PollLoopFrame ==
  /\ UNCHANGED <<frameCounter, pollPositions, pollMoving>>
  /\ UNCHANGED <<closedWhileAlive, moveFresh, preVars>>
  /\ UNCHANGED <<ctlVars, connVars, thrVars, hwVars, callVars, waitVars, retVars>>

\* stage family: if (frameCounter % 3 == 0) for (const auto& axis : m_availableAxes)
PI_PollServoEnter ==
  /\ pollPc = "servo"
  /\ family = "PI"
  /\ IF frameCounter % FrameMod = 0 /\ m_availableAxes # <<>>
       THEN pollPc' = "svCheck" /\ pollAxis' = 1
       ELSE pollPc' = "sleep" /\ pollAxis' = 0
  /\ UNCHANGED <<pollFlag, cacheVars, pollCallOnClosed>>
  /\ PollLoopFrame

\* stage family, IsServoEnabled(axis, enabled) of the loop: not connected:
\* return false; a status update less than 200 ms old: lock(m_mutex), and an
\* entry of the axis is the answer; else the hardware is asked
PI_PollServoCheck ==
  /\ pollPc = "svCheck"
  /\ LET a == m_availableAxes[pollAxis]
     IN  IF ~m_isConnected
           THEN PollNextAxis(Len(m_availableAxes), "svCheck", "sleep")
         ELSE IF statusAge < m_statusUpdateInterval
           THEN /\ m_mutex = "free"
                /\ IF a \in DOMAIN m_axisServoEnabled
                     THEN /\ pollFlag' = m_axisServoEnabled[a]
                          /\ pollPc' = "svWrite"
                     ELSE /\ pollFlag' = pollFlag
                          /\ pollPc' = "svQuery"
                /\ UNCHANGED pollAxis
         ELSE /\ pollPc' = "svQuery"
              /\ UNCHANGED <<pollAxis, pollFlag>>
  /\ UNCHANGED <<cacheVars, pollCallOnClosed>>
  /\ PollLoopFrame

\* stage family, IsServoEnabled: PI_qSVO(m_controllerId, axis, states); on
\* failure return false
PI_PollServoQuery ==
  /\ pollPc = "svQuery"
  /\ \E ok \in BOOLEAN :
       /\ CanSucceed(ok)
       /\ IF ok
            THEN /\ pollFlag' = HwServoOn(m_availableAxes[pollAxis])
                 /\ pollPc' = "svStore"
                 /\ UNCHANGED pollAxis
            ELSE PollNextAxis(Len(m_availableAxes), "svCheck", "sleep")
  /\ PollHwCall(TRUE)
  /\ UNCHANGED cacheVars
  /\ PollLoopFrame

\* stage family, IsServoEnabled: lock(m_mutex); m_axisServoEnabled[axis] =
\* enabled; m_lastStatusUpdate = now (read when IsServoEnabled began); return
\* true
PI_PollServoStore ==
  /\ pollPc = "svStore"
  /\ m_mutex = "free"
  /\ m_axisServoEnabled' = Put(m_axisServoEnabled, m_availableAxes[pollAxis], pollFlag)
  /\ StampedBeforeCall
  /\ pollPc' = "svWrite"
  /\ UNCHANGED <<pollAxis, pollFlag, m_axisPositions, m_axisMoving, pollCallOnClosed>>
  /\ PollLoopFrame

\* stage family, the loop: lock(m_mutex); m_axisServoEnabled[axis] = enabled
PI_PollServoWrite ==
  /\ pollPc = "svWrite"
  /\ m_mutex = "free"
  /\ m_axisServoEnabled' = Put(m_axisServoEnabled, m_availableAxes[pollAxis], pollFlag)
  /\ PollNextAxis(Len(m_availableAxes), "svCheck", "sleep")
  /\ UNCHANGED <<m_axisPositions, m_axisMoving, statusAge, pollCallOnClosed>>
  /\ PollLoopFrame

\* stage family: the servo refresh of every third frame
PI_PollServo ==
  \/ PI_PollServoEnter
  \/ PI_PollServoCheck
  \/ PI_PollServoQuery
  \/ PI_PollServoStore
  \/ PI_PollServoWrite

\* gantry family: if (frameCounter % 3 == 0) for (const auto& axis : { "X", "Y", "Z" })
ACS_PollStatusEnter ==
  /\ pollPc = "stCall"
  /\ family = "ACS"
  /\ IF frameCounter % FrameMod = 0
       THEN pollPc' = "amCheck" /\ pollAxis' = 1
       ELSE pollPc' = "sleep" /\ pollAxis' = 0
  /\ UNCHANGED <<pollFlag, cacheVars, pollCallOnClosed>>
  /\ PollLoopFrame

\* gantry family, moving = IsMoving(axis) of the loop: not connected: false;
\* a status update less than 200 ms old: lock(m_mutex), and an entry of the
\* axis is the answer; else the hardware is asked
ACS_PollMovingCheck ==
  /\ pollPc = "amCheck"
  /\ LET a == ACS_PollAxes[pollAxis]
     IN  IF ~m_isConnected
           THEN /\ pollFlag' = FALSE
                /\ pollPc' = "amWrite"
         ELSE IF statusAge < m_statusUpdateInterval
           THEN /\ m_mutex = "free"
                /\ IF a \in DOMAIN m_axisMoving
                     THEN /\ pollFlag' = m_axisMoving[a]
                          /\ pollPc' = "amWrite"
                     ELSE /\ pollFlag' = pollFlag
                          /\ pollPc' = "amQuery"
         ELSE /\ pollPc' = "amQuery"
              /\ UNCHANGED pollFlag
  /\ UNCHANGED <<pollAxis, cacheVars, pollCallOnClosed>>
  /\ PollLoopFrame

\* gantry family, IsMoving: acsc_GetMotorState; on failure return false
ACS_PollMovingQuery ==
  /\ pollPc = "amQuery"
  /\ \E ok \in BOOLEAN :
       /\ CanSucceed(ok)
       /\ IF ok
            THEN /\ pollFlag' = HwReportsMoving(ACS_PollAxes[pollAxis])
                 /\ pollPc' = "amStore"
            ELSE /\ pollFlag' = FALSE
                 /\ pollPc' = "amWrite"
  /\ PollHwCall(TRUE)
  /\ UNCHANGED <<pollAxis, cacheVars>>
  /\ PollLoopFrame

\* gantry family, IsMoving: lock(m_mutex); m_axisMoving[axis] = isMoving;
\* m_lastStatusUpdate = now (read when IsMoving began); return isMoving
ACS_PollMovingStore ==
  /\ pollPc = "amStore"
  /\ m_mutex = "free"
  /\ m_axisMoving' = Put(m_axisMoving, ACS_PollAxes[pollAxis], pollFlag)
  /\ StampedBeforeCall
  /\ pollPc' = "amWrite"
  /\ UNCHANGED <<pollAxis, pollFlag, m_axisPositions, m_axisServoEnabled,
                 pollCallOnClosed>>
  /\ PollLoopFrame

\* gantry family, the loop: lock(m_mutex); m_axisMoving[axis] = moving; after
\* Z the loop over the servo states begins
ACS_PollMovingWrite ==
  /\ pollPc = "amWrite"
  /\ m_mutex = "free"
  /\ m_axisMoving' = Put(m_axisMoving, ACS_PollAxes[pollAxis], pollFlag)
  /\ pollFlag' = FALSE
  /\ IF pollAxis < Len(ACS_PollAxes)
       THEN pollAxis' = pollAxis + 1 /\ pollPc' = "amCheck"
       ELSE pollAxis' = 1 /\ pollPc' = "asQuery"
  /\ UNCHANGED <<m_axisPositions, m_axisServoEnabled, statusAge, pollCallOnClosed>>
  /\ PollLoopFrame

\* gantry family, IsServoEnabled(axis, enabled) of the loop: not connected:
\* return false; acsc_GetMotorState; on failure return false
ACS_PollServoQuery ==
  /\ pollPc = "asQuery"
  /\ IF ~m_isConnected
       THEN /\ PollNextAxis(Len(ACS_PollAxes), "asQuery", "asStamp")
            /\ UNCHANGED pollCallOnClosed
       ELSE /\ \E ok \in BOOLEAN :
                 /\ CanSucceed(ok)
                 /\ IF ok
                      THEN /\ pollFlag' = HwServoOn(ACS_PollAxes[pollAxis])
                           /\ pollPc' = "asWrite"
                           /\ UNCHANGED pollAxis
                      ELSE PollNextAxis(Len(ACS_PollAxes), "asQuery", "asStamp")
            /\ PollHwCall(TRUE)
  /\ UNCHANGED cacheVars
  /\ PollLoopFrame

\* gantry family, the loop: lock(m_mutex); m_axisServoEnabled[axis] = enabled
ACS_PollServoWrite ==
  /\ pollPc = "asWrite"
  /\ m_mutex = "free"
  /\ m_axisServoEnabled' = Put(m_axisServoEnabled, ACS_PollAxes[pollAxis], pollFlag)
  /\ PollNextAxis(Len(ACS_PollAxes), "asQuery", "asStamp")
  /\ UNCHANGED <<m_axisPositions, m_axisMoving, statusAge, pollCallOnClosed>>
  /\ PollLoopFrame

\* gantry family, after the two loops: m_lastStatusUpdate =
\* std::chrono::steady_clock::now(), the time of this statement
ACS_PollStatusStamp ==
  /\ pollPc = "asStamp"
  /\ statusAge' = 0
  /\ pollPc' = "sleep"
  /\ UNCHANGED <<pollAxis, pollFlag, m_axisPositions, m_axisMoving,
                 m_axisServoEnabled, pollCallOnClosed>>
  /\ PollLoopFrame

\* gantry family: the status refresh of every third frame
ACS_PollStatus ==
  \/ ACS_PollStatusEnter
  \/ ACS_PollMovingCheck
  \/ ACS_PollMovingQuery
  \/ ACS_PollMovingStore
  \/ ACS_PollMovingWrite
  \/ ACS_PollServoQuery
  \/ ACS_PollServoWrite
  \/ ACS_PollStatusStamp

\* m_condVar.wait_for(lock, interval, [this]{ return m_terminateThread; }):
\* returns at once when the flag is set, else after the interval has passed.
\* The interval overlaps the time the calling thread accounts for in its own
\* sleeps, so the time added here is the interval or nothing.
PollSleep ==
  /\ pollPc = "sleep"
  /\ pollPc' = "top"
  /\ \E d \in {0, UpdateIntervalMs(family)} :
       statusAge' = IF m_terminateThread THEN statusAge ELSE Aged(statusAge, d)
  /\ UNCHANGED <<frameCounter, pollPositions, pollMoving, pollAxis, pollFlag>>
  /\ UNCHANGED <<m_axisPositions, m_axisMoving, m_axisServoEnabled>>
  /\ UNCHANGED <<ctlVars, connVars, thrVars, hwVars, callVars, waitVars,
                 retVars, obsVars>>

CommunicationThreadFunc ==
  \/ PollPrologue
  \/ PollTop
  \/ PollPositionsCall
  \/ PollPositionsWrite
  \/ PI_PollMovingCall
  \/ PI_PollMovingWrite
  \/ PI_PollServo
  \/ ACS_PollStatus
  \/ PollSleep

-----------------------------------------------------------------------------
(* Connect and Disconnect, run by the calling thread.                       *)

\* what is recorded when an operation is called; issued: the vendor commands
\* it issues in its first step
Called(op, axis, issued) ==
  /\ preConnected' = (op = "Connect" /\ m_isConnected)
  /\ openIssued' = (op = "Connect" /\ ~m_isConnected)
  /\ preFresh' = (op = "IsMoving" /\ moveFresh # "none" /\ moveFresh = axis)
  /\ preDisconnect' = IF op # "Disconnect" THEN "none"
                      ELSE IF m_isConnected THEN "connected" ELSE "disconnected"
  /\ hwIssued' = issued

\* what is left alone by a command that is counted
ctlCounted == <<family, m_availableAxes, regVars, stopVars, queueVars, appVars,
                mgrVars>>
ctlFixed == <<ctlCounted, raceVars>>

\* one more command is called: one less is left of those a specification
\* that bounds its commands lets the calling thread call
MotionCall == callsLeft' = IF callsLeft > 0 THEN callsLeft - 1 ELSE 0

\* a command called while the calling thread has commands left
WithinCalls(command) == callsLeft > 0 /\ command

\* an operation returns
Returns(op, axis, blocking, ret) ==
  /\ lastOp' = op
  /\ lastAxis' = axis
  /\ lastBlocking' = blocking
  /\ lastRet' = ret
  /\ lastTarget' = IF callBlocking /\ ret = "true" THEN callTarget ELSE -1

\* an operation that takes several steps has been entered
Busy ==
  /\ lastOp' = "busy"
  /\ lastAxis' = ""
  /\ lastBlocking' = FALSE
  /\ lastRet' = "void"
  /\ lastTarget' = -1

\* the calling thread is back between operations
ToIdle ==
  /\ callerPc' = "idle"
  /\ callOp' = "none"
  /\ callAxis' = ""
  /\ callBlocking' = FALSE
  /\ callTarget' = -1
  /\ callPositions' = EmptyMap
  /\ callSuccess' = TRUE

\* PIController::StartCommunicationThread / ACSController::StartCommunicationThread,
\* as a function of m_threadRunning: the flag afterwards and whether a thread
\* was created
StartCommunicationThread(running) ==
  IF ~running THEN [running |-> TRUE, created |-> TRUE]
              ELSE [running |-> running, created |-> FALSE]

\* Connect(ipAddress, port): already connected, or the vendor open call
\* (PI_ConnectTCPIP / acsc_OpenCommEthernet) and m_isConnected.store(true)
Connect ==
  /\ callerPc = "idle"
  /\ Called("Connect", "", <<>>)
  /\ IF m_isConnected
       THEN /\ Returns("Connect", "", FALSE, "true")
            /\ UNCHANGED <<connVars, callVars, waitAxes>>
       ELSE \E ok \in BOOLEAN :
              IF ok
                THEN /\ m_controllerId' = ValidId
                     /\ hwSession' = "open"
                     /\ m_isConnected' = TRUE
                     /\ callOp' = "Connect"
                     /\ IF family = "PI"
                          THEN /\ callerPc' = "connInit"
                               /\ UNCHANGED <<callAxis, waitAxes>>
                          ELSE IF m_availableAxes = <<>>
                            THEN /\ callerPc' = "connSeedCall"
                                 /\ UNCHANGED <<callAxis, waitAxes>>
                            ELSE /\ callerPc' = "connEnable"
                                 /\ callAxis' = Head(m_availableAxes)
                                 /\ waitAxes' = Tail(m_availableAxes)
                     /\ UNCHANGED <<callBlocking, callTarget, callPositions, callSuccess>>
                     /\ Busy
                ELSE /\ m_controllerId' = InvalidId
                     /\ UNCHANGED <<m_isConnected, hwSession, callVars, waitAxes>>
                     /\ Returns("Connect", "", FALSE, "false")
  /\ moveFresh' = "none"
  /\ UNCHANGED <<pollCallOnClosed, closedWhileAlive>>
  /\ UNCHANGED <<ctlVars, thrVars, cacheVars, pollVars, hwVars,
                 waitTimeout, waitElapsed, checkCount, stillMoving>>

\* stage family Connect: lock(m_mutex); every available axis gets position 0.0,
\* moving false, servo false; m_lastStatusUpdate = now
PI_ConnectInitMaps ==
  /\ callerPc = "connInit"
  /\ m_axisPositions' = [a \in (DOMAIN m_axisPositions) \cup Range(m_availableAxes) |->
                           IF a \in Range(m_availableAxes) THEN 0 ELSE m_axisPositions[a]]
  /\ m_axisMoving' = [a \in (DOMAIN m_axisMoving) \cup Range(m_availableAxes) |->
                        IF a \in Range(m_availableAxes) THEN FALSE ELSE m_axisMoving[a]]
  /\ m_axisServoEnabled' =
       [a \in (DOMAIN m_axisServoEnabled) \cup Range(m_availableAxes) |->
          IF a \in Range(m_availableAxes) THEN FALSE ELSE m_axisServoEnabled[a]]
  /\ statusAge' = 0
  /\ callerPc' = "connSeedCall"
  /\ UNCHANGED <<callAxis, callBlocking, callOp, callTarget, callPositions, callSuccess>>
  /\ UNCHANGED <<ctlVars, connVars, thrVars, pollVars, hwVars, waitVars,
                 retVars, obsVars>>

\* gantry family Connect: one pass of for (const auto& axis : m_availableAxes):
\* with a valid index acsc_Enable is called; a failure is logged and the loop
\* goes on.  callAxis is the loop's axis, waitAxes the axes still to visit.
ACS_ConnectEnable ==
  /\ callerPc = "connEnable"
  /\ IF ACS_GetAxisIndexValid(callAxis)
       THEN \E ok \in BOOLEAN :
              /\ CanSucceed(ok)
              /\ hwServo' = [hwServo EXCEPT ![callAxis] = IF ok THEN TRUE ELSE @]
       ELSE UNCHANGED hwServo
  /\ IF waitAxes = <<>>
       THEN /\ callerPc' = "connSeedCall"
            /\ callAxis' = ""
            /\ UNCHANGED waitAxes
       ELSE /\ callAxis' = Head(waitAxes)
            /\ waitAxes' = Tail(waitAxes)
            /\ UNCHANGED callerPc
  /\ UNCHANGED <<hwPos, hwMotion, hwTarget>>
  /\ UNCHANGED <<callBlocking, callOp, callTarget, callPositions, callSuccess>>
  /\ UNCHANGED <<waitTimeout, waitElapsed, checkCount, stillMoving>>
  /\ UNCHANGED <<ctlVars, connVars, thrVars, cacheVars, pollVars,
                 retVars, obsVars>>

\* Connect: GetPositions(positions) for the initial cache; it returns false
\* without a vendor call when the controller is not connected or has no axes
ConnectSeedCall ==
  /\ callerPc = "connSeedCall"
  /\ IF ~m_isConnected \/ m_availableAxes = <<>>
       THEN /\ ToIdle
            /\ Returns("Connect", "", FALSE, "true")
       ELSE \E ok \in BOOLEAN :
              /\ CanSucceed(ok)
              /\ IF ok
                   THEN /\ callPositions' = GetPositions(family, m_availableAxes)
                        /\ callerPc' = "connSeedWrite"
                        /\ UNCHANGED <<callAxis, callBlocking, callOp, callTarget, callSuccess>>
                        /\ UNCHANGED retVars
                   ELSE /\ ToIdle
                        /\ Returns("Connect", "", FALSE, "true")
  /\ UNCHANGED <<ctlVars, connVars, thrVars, cacheVars, pollVars, hwVars,
                 waitVars, obsVars>>

\* Connect: lock(m_mutex); m_axisPositions = positions; return true
ConnectSeedWrite ==
  /\ callerPc = "connSeedWrite"
  /\ m_axisPositions' = callPositions
  /\ ToIdle
  /\ Returns("Connect", "", FALSE, "true")
  /\ seedRace' = "none"
  /\ UNCHANGED <<m_axisMoving, m_axisServoEnabled, statusAge, sentSinceSample>>
  /\ UNCHANGED <<ctlRest, connVars, thrVars, pollVars, hwVars, waitVars, obsVars>>

\* a Disconnect that reports the opposite of its 'success'
DisconnectRetNegated(f, success) == IF f = "PI" THEN "void" ELSE Ret(~success)

\* what Disconnect returns: the gantry family returns its 'success', the
\* stage family returns void
DisconnectRet(f, success) == IF f = "PI" THEN "void" ELSE Ret(success)

\* the stage family's Disconnect calls StopCommunicationThread() before
\* anything else; the gantry family's Disconnect does not
DisconnectStopsThread(f) == f = "PI"

\* Disconnect(): if (!m_isConnected) return; then (stage family)
\* StopCommunicationThread: lock(m_mutex); m_terminateThread = true; notify_all
Disconnect ==
  /\ callerPc = "idle"
  /\ Called("Disconnect", "", <<>>)
  /\ IF ~m_isConnected
       THEN /\ Returns("Disconnect", "", FALSE, DisconnectRet(family, TRUE))
            /\ UNCHANGED <<thrVars, callVars>>
       ELSE /\ Busy
            /\ callOp' = "Disconnect"
            /\ callSuccess' = TRUE
            /\ UNCHANGED <<callAxis, callBlocking, callTarget, callPositions>>
            /\ IF DisconnectStopsThread(family) /\ m_threadRunning
                 THEN /\ m_terminateThread' = TRUE
                      /\ callerPc' = "discJoin"
                 ELSE /\ m_terminateThread' = m_terminateThread
                      /\ callerPc' = "discStop"
            /\ UNCHANGED m_threadRunning
  /\ moveFresh' = "none"
  /\ UNCHANGED <<pollCallOnClosed, closedWhileAlive>>
  /\ UNCHANGED <<ctlVars, connVars, cacheVars, pollVars, hwVars, waitVars>>

\* StopCommunicationThread: m_communicationThread.join(); m_threadRunning = false
StopCommunicationThreadJoin ==
  /\ callerPc = "discJoin"
  /\ pollPc = "exited"
  /\ m_threadRunning' = FALSE
  /\ callerPc' = "discStop"
  /\ UNCHANGED <<m_terminateThread, callAxis, callBlocking, callOp, callTarget,
                 callPositions, callSuccess>>
  /\ UNCHANGED <<ctlVars, connVars, cacheVars, pollVars, hwVars, waitVars,
                 retVars, obsVars>>

\* Disconnect: StopAllAxes() (PI_STP / acsc_KillAll); the gantry family notes
\* a failure in 'success', both go on
DisconnectStopAxes ==
  /\ callerPc = "discStop"
  /\ \E ok \in BOOLEAN :
       /\ CanSucceed(ok)
       /\ callSuccess' = (callSuccess /\ (ok /\ m_isConnected))
       /\ hwMotion' = IF ok /\ m_isConnected
                        THEN [a \in DOMAIN hwMotion |-> "idle"] ELSE hwMotion
       /\ hwIssued' = IF m_isConnected
                        THEN Append(hwIssued, [call |-> "stop", ok |-> ok])
                        ELSE hwIssued
  /\ callerPc' = "discClose"
  /\ UNCHANGED <<hwPos, hwTarget, hwServo, callAxis, callBlocking, callOp, callTarget,
                 callPositions>>
  /\ UNCHANGED <<pollCallOnClosed, closedWhileAlive, moveFresh, preConnected,
                 openIssued, preFresh, preDisconnect>>
  /\ UNCHANGED <<ctlVars, connVars, thrVars, cacheVars, pollVars, waitVars,
                 retVars>>

\* the session after the vendor's close call: closed when the call worked;
\* the source holds nothing about a call that failed, which leaves the
\* session as it was or closes it
SessionAfterClose(ok) == IF ok THEN {"closed"} ELSE {hwSession, "closed"}

\* Disconnect: PI_CloseConnection(m_controllerId) / acsc_CloseComm(m_controllerId);
\* a close that reports an error clears the gantry family's 'success'; the
\* stage family's call returns nothing
DisconnectClose ==
  /\ callerPc = "discClose"
  /\ \E ok \in BOOLEAN :
       /\ callSuccess' = (callSuccess /\ ok)
       /\ hwIssued' = Append(hwIssued, [call |-> "close", ok |-> ok])
       /\ hwSession' \in SessionAfterClose(ok)
  /\ closedWhileAlive' = (closedWhileAlive \/ (ThreadAlive /\ hwSession' = "closed"))
  /\ callerPc' = "discFlag"
  /\ UNCHANGED <<m_isConnected, m_controllerId, callAxis, callBlocking, callOp,
                 callTarget, callPositions>>
  /\ UNCHANGED <<pollCallOnClosed, moveFresh, preConnected, openIssued, preFresh,
                 preDisconnect>>
  /\ UNCHANGED <<ctlVars, thrVars, cacheVars, pollVars, hwVars, waitVars, retVars>>

\* a Disconnect that drops the connected state only when stop and close worked
DisconnectFlagOnSuccess ==
  /\ callerPc = "discFlag"
  /\ m_isConnected' = ~callSuccess
  /\ m_controllerId' = IF callSuccess THEN InvalidId ELSE m_controllerId
  /\ Returns("Disconnect", "", FALSE, DisconnectRet(family, callSuccess))
  /\ ToIdle
  /\ UNCHANGED hwSession
  /\ UNCHANGED <<ctlVars, thrVars, cacheVars, pollVars, hwVars, waitVars, obsVars>>

\* Disconnect: m_isConnected.store(false); m_controllerId = invalid; return
DisconnectFlag ==
  /\ callerPc = "discFlag"
  /\ m_isConnected' = FALSE
  /\ m_controllerId' = InvalidId
  /\ Returns("Disconnect", "", FALSE, DisconnectRet(family, callSuccess))
  /\ ToIdle
  /\ UNCHANGED hwSession
  /\ UNCHANGED <<ctlVars, thrVars, cacheVars, pollVars, hwVars, waitVars, obsVars>>

\* the drive takes the enable command of the loop's axis
EnableAccepted == ACS_GetAxisIndexValid(callAxis) => hwServo'[callAxis]

\* the axes on which the specifications that follow a rejected enable
\* command let the drive reject it
EnableFaultAxes == {"X"}

\* the enable command is rejected on the axes of EnableFaultAxes at most
EnableFaultsBounded == callAxis \notin EnableFaultAxes => EnableAccepted

\* the steps of Connect, the enable command rejected on EnableFaultAxes at most
ConnectSteps ==
  \/ PI_ConnectInitMaps
  \/ (ACS_ConnectEnable /\ EnableFaultsBounded)
  \/ ConnectSeedCall
  \/ ConnectSeedWrite

\* the steps of Connect on a drive that takes every enable command: the
\* specifications about motion, which no servo state enters
ConnectStepsAccepted ==
  \/ PI_ConnectInitMaps
  \/ (ACS_ConnectEnable /\ EnableAccepted)
  \/ ConnectSeedCall
  \/ ConnectSeedWrite

DisconnectSteps ==
  StopCommunicationThreadJoin \/ DisconnectStopAxes \/ DisconnectClose \/ DisconnectFlag

-----------------------------------------------------------------------------
(* The vendor controller's axes.                                            *)

\* a commanded motion starts to be reported as moving
HwStart ==
  /\ \E a \in DOMAIN hwMotion :
       /\ hwMotion[a] = "accepted"
       /\ hwMotion' = [hwMotion EXCEPT ![a] = "moving"]
  /\ UNCHANGED <<hwPos, hwTarget, hwServo>>
  /\ UNCHANGED <<ctlVars, connVars, thrVars, cacheVars, pollVars, callVars,
                 waitVars, retVars, obsVars>>

\* a motion reaches its target and the axis is idle again
HwFinish ==
  /\ \E a \in DOMAIN hwMotion :
       /\ hwMotion[a] = "moving"
       /\ hwMotion' = [hwMotion EXCEPT ![a] = "idle"]
       /\ hwPos' = [hwPos EXCEPT ![a] = hwTarget[a]]
       /\ moveFresh' = IF moveFresh = a THEN "none" ELSE moveFresh
       /\ preFresh' = (preFresh /\ ~(callerPc = "imQuery" /\ callAxis = a))
  /\ UNCHANGED <<hwTarget, hwServo>>
  /\ UNCHANGED <<pollCallOnClosed, closedWhileAlive, preConnected, openIssued,
                 preDisconnect, hwIssued>>
  /\ UNCHANGED <<ctlVars, connVars, thrVars, cacheVars, pollVars, callVars,
                 waitVars, retVars>>

\* the vendor takes a move command for axis a to position tgt
HwAccept(a, tgt) ==
  /\ hwTarget' = [hwTarget EXCEPT ![a] = tgt]
  /\ hwMotion' = [hwMotion EXCEPT ![a] = "accepted"]
  /\ hwPos' = hwPos
  /\ hwServo' = hwServo

\* where a relative move starts from: the position the axis is heading to
HwBase(a) == IF hwMotion[a] = "idle" THEN hwPos[a] ELSE hwTarget[a]

-----------------------------------------------------------------------------
(* Motion commands and queries, run by the calling thread.                  *)

\* axis arguments the operations are called with
ArgAxes == {"X", UnknownAxis}

\* the positions a move (absolute: rel = FALSE, relative: rel = TRUE) on axis
\* a can be sent to within the bounds
Targets(a, rel) ==
  IF a \notin DOMAIN hwPos THEN {0}
  ELSE IF rel THEN {HwBase(a) + d : d \in {-1, 1}} \cap (0..MaxPos)
  ELSE 0..MaxPos

MoveName(rel) == IF rel THEN "MoveRelative" ELSE "MoveToPosition"

\* stage family MoveToPosition / MoveRelative: if (!m_isConnected) return false;
\* PI_MOV / PI_MVR; on failure return false
PI_MoveSend(blocking) ==
  /\ callerPc = "idle"
  /\ family = "PI"
  /\ \E a \in ArgAxes, rel \in BOOLEAN :
     \E tgt \in Targets(a, rel), ok \in BOOLEAN :
       /\ CanSucceed(ok)
       /\ ok => a \in HwAxes("PI")
       /\ Called("other", "", IF m_isConnected
                                THEN <<[call |-> "move", ok |-> ok]>> ELSE <<>>)
       /\ IF m_isConnected /\ ok
            THEN /\ HwAccept(a, tgt)
                 /\ callerPc' = "mvMark"
                 /\ callAxis' = a
                 /\ callBlocking' = blocking
                 /\ callTarget' = tgt
                 /\ callOp' = MoveName(rel)
                 /\ sentSinceSample' = IF pollPc = "stWrite" THEN a
                                         ELSE sentSinceSample
                 /\ UNCHANGED <<callPositions, callSuccess>>
                 /\ Busy
            ELSE /\ UNCHANGED <<hwVars, callVars, sentSinceSample>>
                 /\ lastOp' = MoveName(rel)
                 /\ lastAxis' = a
                 /\ lastBlocking' = blocking
                 /\ lastRet' = "false"
                 /\ lastTarget' = -1
  /\ moveFresh' = "none"
  /\ MotionCall
  /\ UNCHANGED <<pollCallOnClosed, closedWhileAlive, seedRace>>
  /\ UNCHANGED <<ctlCounted, connVars, thrVars, cacheVars, pollVars, waitVars>>

\* what the stage family's move writes to the cache once the command is sent:
\* lock(m_mutex); m_axisMoving[axis] = true
PI_OptimisticMoving(map, a) == Put(map, a, TRUE)

\* stage family move, after the command: mark the axis moving, then return
\* true or, if blocking, return WaitForMotionCompletion(axis)
PI_MoveMark ==
  /\ callerPc = "mvMark"
  /\ m_axisMoving' = PI_OptimisticMoving(m_axisMoving, callAxis)
  /\ IF callBlocking
       THEN /\ callerPc' = "wEnter"
            /\ waitTimeout' = DefaultTimeoutMs
            /\ waitElapsed' = 0
            /\ checkCount' = 0
            /\ stillMoving' = FALSE
            /\ waitAxes' = <<>>
            /\ UNCHANGED <<callAxis, callBlocking, callOp, callTarget,
                           callPositions, callSuccess>>
            /\ UNCHANGED <<retVars, moveFresh>>
       ELSE /\ Returns(callOp, callAxis, callBlocking, "true")
            /\ moveFresh' = IF hwMotion[callAxis] = "idle" THEN "none" ELSE callAxis
            /\ ToIdle
            /\ UNCHANGED waitVars
  /\ UNCHANGED <<m_axisPositions, m_axisServoEnabled, statusAge>>
  /\ UNCHANGED <<pollCallOnClosed, closedWhileAlive, preVars>>
  /\ UNCHANGED <<ctlVars, connVars, thrVars, pollVars, hwVars>>

\* gantry family MoveToPosition / MoveRelative: connection and axis checks,
\* acsc_ToPointM, StartMotion (acsc_GoM); then return true or, if blocking,
\* return WaitForMotionCompletion(axis).  Nothing is written to the cache.
ACS_Move(blocking) ==
  /\ callerPc = "idle"
  /\ family = "ACS"
  /\ \E a \in ArgAxes, rel \in BOOLEAN :
     \E tgt \in Targets(a, rel), ok \in BOOLEAN :
       /\ CanSucceed(ok)
       /\ Called("other", "", IF m_isConnected /\ ACS_GetAxisIndexValid(a)
                                THEN <<[call |-> "move", ok |-> ok]>> ELSE <<>>)
       /\ IF m_isConnected /\ ACS_GetAxisIndexValid(a) /\ ok
            THEN /\ HwAccept(a, tgt)
                 /\ IF blocking
                      THEN /\ callerPc' = "wEnter"
                           /\ callAxis' = a
                           /\ callBlocking' = blocking
                           /\ callTarget' = tgt
                           /\ callOp' = MoveName(rel)
                           /\ waitTimeout' = DefaultTimeoutMs
                           /\ waitElapsed' = 0
                           /\ checkCount' = 0
                           /\ stillMoving' = FALSE
                           /\ waitAxes' = <<>>
                           /\ UNCHANGED <<callPositions, callSuccess>>
                           /\ Busy
                           /\ moveFresh' = "none"
                      ELSE /\ lastOp' = MoveName(rel)
                           /\ lastAxis' = a
                           /\ lastBlocking' = blocking
                           /\ lastRet' = "true"
                           /\ lastTarget' = -1
                           /\ moveFresh' = a
                           /\ UNCHANGED <<callVars, waitVars>>
            ELSE /\ UNCHANGED <<hwVars, callVars, waitVars>>
                 /\ lastOp' = MoveName(rel)
                 /\ lastAxis' = a
                 /\ lastBlocking' = blocking
                 /\ lastRet' = "false"
                 /\ lastTarget' = -1
                 /\ moveFresh' = "none"
  /\ MotionCall
  /\ UNCHANGED <<pollCallOnClosed, closedWhileAlive>>
  /\ UNCHANGED <<ctlFixed, connVars, thrVars, cacheVars, pollVars>>

\* the status query in progress goes on at pc
QueryGoes(op, a, pc) ==
  /\ callerPc' = pc
  /\ callOp' = op
  /\ callAxis' = a
  /\ Busy
  /\ UNCHANGED <<callBlocking, callTarget, callPositions, callSuccess>>

\* the status query in progress returns
QueryReturns(op, a, ret) ==
  /\ Returns(op, a, FALSE, ret)
  /\ ToIdle

\* IsMoving(axis) called by the calling thread: if (!m_isConnected) return
\* false; gantry family, a status update less than 200 ms old: lock(m_mutex),
\* and an entry of the axis is the answer; else the hardware is asked
IsMoving ==
  /\ callerPc = "idle"
  /\ \E a \in ArgAxes :
       /\ Called("IsMoving", a, <<>>)
       /\ IF ~m_isConnected
            THEN QueryReturns("IsMoving", a, "false")
          ELSE IF family = "ACS" /\ statusAge < m_statusUpdateInterval
            THEN /\ m_mutex = "free"
                 /\ IF a \in DOMAIN m_axisMoving
                      THEN QueryReturns("IsMoving", a, Ret(m_axisMoving[a]))
                      ELSE QueryGoes("IsMoving", a, "imQuery")
          ELSE QueryGoes("IsMoving", a, "imQuery")
  /\ moveFresh' = "none"
  /\ MotionCall
  /\ UNCHANGED <<pollCallOnClosed, closedWhileAlive>>
  /\ UNCHANGED <<ctlFixed, connVars, thrVars, cacheVars, pollVars, hwVars, waitVars>>

\* IsMoving, the vendor call, made with m_mutex free.  Gantry family:
\* GetAxisIndex(axis) < 0: return false; acsc_GetMotorState, on failure
\* return false.  Stage family: PI_IsMoving(m_controllerId, axis,
\* isMovingArray).  The answer is kept in the local until it is stored.
IsMovingQuery ==
  /\ callerPc = "imQuery"
  /\ IF family = "ACS" /\ ~ACS_GetAxisIndexValid(callAxis)
       THEN /\ QueryReturns("IsMoving", callAxis, "false")
            /\ stillMoving' = FALSE
       ELSE \E ok \in BOOLEAN :
              /\ CanSucceed(ok)
              /\ ok => callAxis \in HwAxes(family)
              /\ IF ok
                   THEN /\ stillMoving' = HwReportsMoving(callAxis)
                        /\ QueryGoes("IsMoving", callAxis, "imStore")
                   ELSE IF family = "ACS"
                     THEN /\ QueryReturns("IsMoving", callAxis, "false")
                          /\ stillMoving' = FALSE
                     ELSE /\ stillMoving' = FALSE
                          /\ QueryGoes("IsMoving", callAxis, "imCached")
  /\ UNCHANGED <<waitTimeout, waitElapsed, checkCount, waitAxes>>
  /\ UNCHANGED <<ctlVars, connVars, thrVars, cacheVars, pollVars, hwVars, obsVars>>

\* IsMoving after the vendor call.  On success lock(m_mutex);
\* m_axisMoving[axis] = the answer (gantry family: and m_lastStatusUpdate =
\* now, read when IsMoving began); return the answer.  Stage family on
\* failure: lock(m_mutex); return the cached flag, false when there is none.
IsMovingStore ==
  /\ callerPc \in {"imStore", "imCached"}
  /\ m_mutex = "free"
  /\ IF callerPc = "imStore"
       THEN /\ m_axisMoving' = Put(m_axisMoving, callAxis, stillMoving)
            /\ IF family = "ACS" THEN StampedBeforeCall ELSE UNCHANGED statusAge
            /\ QueryReturns("IsMoving", callAxis, Ret(stillMoving))
       ELSE /\ UNCHANGED <<m_axisMoving, statusAge>>
            /\ QueryReturns("IsMoving", callAxis,
                            Ret(callAxis \in DOMAIN m_axisMoving /\ m_axisMoving[callAxis]))
  /\ stillMoving' = FALSE
  /\ UNCHANGED <<waitTimeout, waitElapsed, checkCount, waitAxes>>
  /\ UNCHANGED <<m_axisPositions, m_axisServoEnabled>>
  /\ UNCHANGED <<ctlVars, connVars, thrVars, pollVars, hwVars, obsVars>>

IsMovingSteps == IsMovingQuery \/ IsMovingStore

\* the calling thread lets TickMs pass between two operations
Tick ==
  /\ callerPc = "idle"
  /\ statusAge < m_statusUpdateInterval
  /\ statusAge' = Aged(statusAge, TickMs)
  /\ UNCHANGED <<m_axisPositions, m_axisMoving, m_axisServoEnabled>>
  /\ UNCHANGED <<ctlVars, connVars, thrVars, pollVars, hwVars, callVars,
                 waitVars, retVars, obsVars>>

-----------------------------------------------------------------------------
(* WaitForMotionCompletion(axis, timeoutSeconds), run by the calling thread, *)
(* entered from a blocking move or called directly.                          *)

\* the timeout test with the whole seconds elapsed compared against the
\* timeout in milliseconds
TimedOutMixedUnits(elapsedMs, timeoutMs) == (elapsedMs \div 1000) > timeoutMs

\* elapsedSeconds = duration_cast<seconds>(currentTime - startTime).count();
\* if (elapsedSeconds > timeoutSeconds): timeout
TimedOut(elapsedMs, timeoutMs) == (elapsedMs \div 1000) * 1000 > timeoutMs

\* the wait returns ret after count checks.  A blocking move over several
\* axes that has axes left goes on to the wait for the next one (if
\* (!WaitForMotionCompletion(axis)) success = false); else the operation
\* returns to its caller, a wait called directly with ret and a blocking move
\* with its success.  The locals of the wait are kept as what the call took
\* when it returns false and are gone when it returns true.
WaitReturnsAt(ret, count, elapsed) ==
  IF waitAxes = <<>>
    THEN /\ Returns(callOp, callAxis, callBlocking, Ret(callSuccess /\ ret))
         /\ ToIdle
         /\ waitTimeout' = IF ret THEN 0 ELSE waitTimeout
         /\ waitElapsed' = IF ret THEN 0 ELSE elapsed
         /\ checkCount' = IF ret THEN 0 ELSE count
         /\ stillMoving' = FALSE
         /\ waitAxes' = <<>>
    ELSE /\ callAxis' = Head(waitAxes)
         /\ waitAxes' = Tail(waitAxes)
         /\ callSuccess' = (callSuccess /\ ret)
         /\ callerPc' = "wEnter"
         /\ waitElapsed' = 0
         /\ checkCount' = 0
         /\ stillMoving' = FALSE
         /\ UNCHANGED <<waitTimeout, callBlocking, callOp, callTarget, callPositions>>
         /\ UNCHANGED retVars

\* the wait returns with the time elapsed as it stands
WaitReturns(ret, count) == WaitReturnsAt(ret, count, waitElapsed)

\* the wait goes on at pc with count checks made and elapsed ms gone since
\* startTime; it sleeps with stillMoving true and begins a check with the
\* local not yet set
WaitGoesAt(pc, count, elapsed) ==
  /\ callerPc' = pc
  /\ checkCount' = count
  /\ stillMoving' = (pc = "wSleep")
  /\ waitElapsed' = elapsed
  /\ UNCHANGED <<waitTimeout, waitAxes>>
  /\ UNCHANGED <<callAxis, callBlocking, callOp, callTarget, callPositions,
                 callSuccess>>
  /\ UNCHANGED retVars

\* the same with no time gone since the time elapsed was last counted
WaitGoes(pc, count) == WaitGoesAt(pc, count, waitElapsed)

\* timeoutSeconds values a direct call passes, in ms: 0 s, 0.5 s, ...
Timeouts == {500 * k : k \in 0..MaxTimeoutHalfSec}

\* WaitForMotionCompletion called directly
WaitForMotionCompletion ==
  /\ callerPc = "idle"
  /\ \E a \in ArgAxes, t \in Timeouts :
       /\ callAxis' = a
       /\ waitTimeout' = t
  /\ Called("other", "", <<>>)
  /\ callerPc' = "wEnter"
  /\ callOp' = "WaitForMotionCompletion"
  /\ Busy
  /\ moveFresh' = "none"
  /\ UNCHANGED <<callBlocking, callTarget, callPositions, callSuccess>>
  /\ waitElapsed' = 0
  /\ checkCount' = 0
  /\ stillMoving' = FALSE
  /\ waitAxes' = <<>>
  /\ UNCHANGED <<pollCallOnClosed, closedWhileAlive>>
  /\ UNCHANGED <<ctlVars, connVars, thrVars, cacheVars, pollVars, hwVars>>

\* if (!m_isConnected) return false; (gantry: axis index < 0: return false);
\* startTime = now; checkCount = 0
WaitEnter ==
  /\ callerPc = "wEnter"
  /\ IF ~m_isConnected \/ (family = "ACS" /\ ~ACS_GetAxisIndexValid(callAxis))
       THEN WaitReturns(FALSE, 0)
       ELSE WaitGoes("wCheck", 0)
  /\ UNCHANGED <<ctlVars, connVars, thrVars, cacheVars, pollVars, hwVars, obsVars>>

\* after the count-th check found the axis moving, elapsed ms after
\* startTime: timeout test, else sleep
WaitAfterMovingAt(count, elapsed) ==
  IF TimedOut(elapsed, waitTimeout)
    THEN WaitReturnsAt(FALSE, count, elapsed)
    ELSE WaitGoesAt("wSleep", count, elapsed)

\* after a check that made no vendor call
WaitAfterMoving(count) == WaitAfterMovingAt(count, waitElapsed)

\* m_axisMoving.find(axis) of the wait and of IsMoving: whether the axis has
\* an entry; find reports a key that is not there by end() and throws
\* nothing, whatever the key
MovingCacheFind(map, a) == [found |-> a \in DOMAIN map, thrown |-> FALSE]

\* an exception leaves the wait: its locals are gone and it reaches the
\* caller of the operation
WaitThrows ==
  /\ Returns(callOp, callAxis, callBlocking, "thrown")
  /\ ToIdle
  /\ waitTimeout' = 0
  /\ waitElapsed' = 0
  /\ checkCount' = 0
  /\ stillMoving' = FALSE
  /\ waitAxes' = <<>>

\* stage family, top of the loop: checkCount++; stillMoving is the cached
\* m_axisMoving[axis] (false when absent); when it is true the hardware is not
\* asked
PI_WaitReadCache ==
  /\ callerPc = "wCheck"
  /\ family = "PI"
  /\ LET it == MovingCacheFind(m_axisMoving, callAxis)
     IN  IF it.thrown
           THEN WaitThrows
         ELSE IF it.found /\ m_axisMoving[callAxis]
           THEN WaitAfterMoving(checkCount + 1)
           ELSE WaitGoes("wQuery", checkCount + 1)
  /\ UNCHANGED <<ctlVars, connVars, thrVars, cacheVars, pollVars, hwVars, obsVars>>

\* stage family: stillMoving = IsMoving(axis): not connected: return false;
\* PI_IsMoving(m_controllerId, axis, isMovingArray)
PI_WaitQuery ==
  /\ callerPc = "wQuery"
  /\ family = "PI"
  /\ IF ~m_isConnected
       THEN /\ stillMoving' = FALSE
            /\ callerPc' = "wWrite"
       ELSE \E ok \in BOOLEAN :
              /\ CanSucceed(ok)
              /\ ok => callAxis \in HwAxes("PI")
              /\ IF ok
                   THEN /\ stillMoving' = HwReportsMoving(callAxis)
                        /\ callerPc' = "wStore"
                   ELSE /\ stillMoving' = stillMoving
                        /\ callerPc' = "wCached"
  /\ UNCHANGED <<waitTimeout, waitElapsed, checkCount, waitAxes>>
  /\ UNCHANGED <<callAxis, callBlocking, callOp, callTarget, callPositions,
                 callSuccess>>
  /\ UNCHANGED <<ctlVars, connVars, thrVars, cacheVars, pollVars, hwVars,
                 retVars, obsVars>>

\* stage family, IsMoving after the query: on success lock(m_mutex);
\* m_axisMoving[axis] = the answer; return it; on failure lock(m_mutex);
\* return the cached flag, false when there is none.  The vendor call has
\* taken its time, which the wait's clock and the age of the status have
\* gone on by
PI_WaitQueryStore ==
  /\ callerPc \in {"wStore", "wCached"}
  /\ family = "PI"
  /\ m_mutex = "free"
  /\ m_axisMoving' = IF callerPc = "wStore"
                        THEN Put(m_axisMoving, callAxis, stillMoving)
                        ELSE m_axisMoving
  /\ stillMoving' = IF callerPc = "wStore" THEN stillMoving
                    ELSE (callAxis \in DOMAIN m_axisMoving /\ m_axisMoving[callAxis])
  /\ callerPc' = "wWrite"
  /\ \E d \in VendorCallMs :
       /\ waitElapsed' = waitElapsed + d
       /\ statusAge' = Aged(statusAge, d)
  /\ UNCHANGED <<waitTimeout, checkCount, waitAxes>>
  /\ UNCHANGED <<callAxis, callBlocking, callOp, callTarget, callPositions,
                 callSuccess>>
  /\ UNCHANGED <<m_axisPositions, m_axisServoEnabled>>
  /\ UNCHANGED <<ctlVars, connVars, thrVars, pollVars, hwVars, retVars, obsVars>>

\* stage family, the wait after IsMoving: lock(m_mutex); m_axisMoving[axis] =
\* stillMoving; not moving: return true; moving: currentTime is read here,
\* after IsMoving has returned, and tested against the timeout
PI_WaitWrite ==
  /\ callerPc = "wWrite"
  /\ m_mutex = "free"
  /\ m_axisMoving' = Put(m_axisMoving, callAxis, stillMoving)
  /\ IF stillMoving THEN WaitAfterMoving(checkCount)
                    ELSE WaitReturns(TRUE, checkCount)
  /\ UNCHANGED <<m_axisPositions, m_axisServoEnabled, statusAge>>
  /\ UNCHANGED <<ctlVars, connVars, thrVars, pollVars, hwVars, obsVars>>

\* gantry family, top of the loop: checkCount++; stillMoving = IsMoving(axis):
\* not connected: false; a status update less than 200 ms old: lock(m_mutex),
\* and an entry of the axis is the answer; else the hardware is asked.  Not
\* moving: return true
ACS_WaitCheck ==
  /\ callerPc = "wCheck"
  /\ family = "ACS"
  /\ IF ~m_isConnected
       THEN WaitReturns(TRUE, checkCount + 1)
     ELSE IF statusAge < m_statusUpdateInterval
       THEN /\ m_mutex = "free"
            /\ LET it == MovingCacheFind(m_axisMoving, callAxis)
               IN  IF it.thrown
                     THEN WaitThrows
                   ELSE IF it.found
                     THEN IF m_axisMoving[callAxis]
                            THEN WaitAfterMoving(checkCount + 1)
                            ELSE WaitReturns(TRUE, checkCount + 1)
                     ELSE WaitGoes("wQuery", checkCount + 1)
     ELSE WaitGoes("wQuery", checkCount + 1)
  /\ UNCHANGED <<ctlVars, connVars, thrVars, cacheVars, pollVars, hwVars, obsVars>>

\* gantry family, IsMoving of the wait: acsc_GetMotorState, made with m_mutex
\* free; on failure return false, and the wait returns true
ACS_WaitQuery ==
  /\ callerPc = "wQuery"
  /\ family = "ACS"
  /\ \E ok \in BOOLEAN :
       /\ CanSucceed(ok)
       /\ IF ok
            THEN /\ callerPc' = "wStore"
                 /\ stillMoving' = HwReportsMoving(callAxis)
                 /\ UNCHANGED <<waitTimeout, waitElapsed, checkCount, waitAxes>>
                 /\ UNCHANGED <<callAxis, callBlocking, callOp, callTarget,
                                callPositions, callSuccess>>
                 /\ UNCHANGED retVars
            ELSE WaitReturns(TRUE, checkCount)
  /\ UNCHANGED <<ctlVars, connVars, thrVars, cacheVars, pollVars, hwVars, obsVars>>

\* gantry family, IsMoving of the wait after the query: lock(m_mutex);
\* m_axisMoving[axis] = isMoving; m_lastStatusUpdate = now (read when IsMoving
\* began); return isMoving.  Not moving: the wait returns true; moving:
\* currentTime is read after the vendor call, whose time has gone by
ACS_WaitStore ==
  /\ callerPc = "wStore"
  /\ family = "ACS"
  /\ m_mutex = "free"
  /\ m_axisMoving' = Put(m_axisMoving, callAxis, stillMoving)
  /\ \E d \in VendorCallMs :
       /\ statusAge' = Aged(0, d)
       /\ IF stillMoving THEN WaitAfterMovingAt(checkCount, waitElapsed + d)
                         ELSE WaitReturns(TRUE, checkCount)
  /\ UNCHANGED <<m_axisPositions, m_axisServoEnabled>>
  /\ UNCHANGED <<ctlVars, connVars, thrVars, pollVars, hwVars, obsVars>>

\* std::this_thread::sleep_for(std::chrono::milliseconds(50))
WaitSleep ==
  /\ callerPc = "wSleep"
  /\ waitElapsed' = waitElapsed + WaitSleepMs
  /\ statusAge' = Aged(statusAge, WaitSleepMs)
  /\ callerPc' = "wCheck"
  /\ UNCHANGED <<callAxis, callBlocking, callOp, callTarget, callPositions,
                 callSuccess>>
  /\ stillMoving' = FALSE
  /\ UNCHANGED <<waitTimeout, checkCount, waitAxes, retVars>>
  /\ UNCHANGED <<m_axisPositions, m_axisMoving, m_axisServoEnabled>>
  /\ UNCHANGED <<ctlVars, connVars, thrVars, pollVars, hwVars, obsVars>>

WaitSteps ==
  \/ WaitEnter
  \/ PI_WaitReadCache
  \/ PI_WaitQuery
  \/ PI_WaitQueryStore
  \/ PI_WaitWrite
  \/ ACS_WaitCheck
  \/ ACS_WaitQuery
  \/ ACS_WaitStore
  \/ WaitSleep

-----------------------------------------------------------------------------
(* A freshly constructed controller: the constructor sets the flags, the    *)
(* default axes, and starts the communication thread.                       *)

\* the servo states the hardware can be in when the controller is
\* constructed: every axis disabled
ServoStates(f) == {[a \in HwAxes(f) |-> FALSE]}

\* the controller after its constructor, with axes as m_availableAxes.  The
\* stage controller's initializer list stamps m_lastStatusUpdate with now and
\* its thread function enters the loop at once; the gantry controller's
\* constructor leaves m_lastStatusUpdate at the clock's epoch, and its thread
\* function stamps it before the loop (PollPrologue)
ConstructedWith(axes) ==
  /\ family \in Families
  /\ m_availableAxes = axes
  /\ m_isConnected = FALSE
  /\ m_threadRunning = StartCommunicationThread(FALSE).running
  /\ m_terminateThread = FALSE
  /\ m_controllerId = InvalidId
  /\ m_axisPositions = EmptyMap
  /\ m_axisMoving = EmptyMap
  /\ m_axisServoEnabled = EmptyMap
  /\ statusAge = IF family = "PI" THEN 0 ELSE m_statusUpdateInterval
  /\ pollPc = IF ~StartCommunicationThread(FALSE).created THEN "exited"
              ELSE IF family = "PI" THEN "top" ELSE "start"
  /\ frameCounter = 0
  /\ pollPositions = EmptyMap
  /\ pollMoving = EmptyMap
  /\ pollAxis = 0
  /\ pollFlag = FALSE
  /\ hwSession = "closed"
  /\ \E p \in 0..MaxPos : hwPos = [a \in HwAxes(family) |-> IF a = "X" THEN p ELSE 0]
  /\ hwTarget = hwPos
  /\ hwServo \in ServoStates(family)
  /\ callerPc = "idle"
  /\ callAxis = ""
  /\ callBlocking = FALSE
  /\ callTarget = -1
  /\ callOp = "none"
  /\ callPositions = EmptyMap
  /\ callSuccess = TRUE
  /\ waitTimeout = 0
  /\ waitElapsed = 0
  /\ checkCount = 0
  /\ stillMoving = FALSE
  /\ waitAxes = <<>>
  /\ lastOp = "none"
  /\ lastAxis = ""
  /\ lastBlocking = FALSE
  /\ lastRet = "void"
  /\ lastTarget = -1
  /\ pollCallOnClosed = FALSE
  /\ closedWhileAlive = FALSE
  /\ moveFresh = "none"
  /\ preConnected = FALSE
  /\ openIssued = FALSE
  /\ preFresh = FALSE
  /\ preDisconnect = "none"
  /\ hwIssued = <<>>
  /\ m_mutex = "free"
  /\ alive = "alive"
  /\ sleptAfterStop = FALSE
  /\ sentSinceSample = "none"
  /\ seedRace = "none"
  /\ m_commandQueue = <<>>
  /\ m_commandMutex = "free"
  /\ appended = 0
  /\ executedLog = <<>>
  /\ cleanupPc = "none"
  /\ cleanupTodo = {}
  /\ hwThreadPc = "unborn"

\* the controller as its constructor leaves it
InitController == ConstructedWith(DefaultAxes(family))

\* every axis of the hardware is at rest when the controller is constructed
HwAtRest == hwMotion = [a \in HwAxes(family) |-> "idle"]

\* axis X of the hardware is in a motion that does not end
HwInMotion == hwMotion = [a \in HwAxes(family) |-> IF a = "X" THEN "moving" ELSE "idle"]

\* the device names, numbered in the order of the names: the order in which
\* Config::Motion::GetAllDevices() returns the records, which are the members
\* of a JSON object, and the order of the entries of a std::map
Devices == 1..NumDevices

\* the threads that call into one manager
Threads == {"T1", "T2"}

\* the controller family a manager of this kind is for
KindFamily(kind) == IF kind = "ACS" THEN "ACS" ELSE "PI"

\* LoadDevicesFromConfig, run by the constructor and by Initialize: the gantry
\* manager keeps the records with typeController "ACS" that are enabled, the
\* stage manager keeps every record with typeController "PI"
LoadDevicesFromConfig(kind, enabled, type) ==
  IF kind = "ACS" THEN {d \in Devices : type[d] = "ACS" /\ enabled[d]}
  ELSE {d \in Devices : type[d] = "PI"}

\* installAxes of a record that names the family's usual axes
UsualAxes(f) ==
  IF f = "PI" THEN <<"X", " ", "Y", " ", "Z", " ", "U", " ", "V", " ", "W">>
  ELSE <<"X", " ", "Y", " ", "Z">>

\* axisStr.find(" "): the first position of the delimiter, 0 for npos
FindDelimiter(axisStr) ==
  IF \E i \in 1..Len(axisStr) : axisStr[i] = " "
    THEN CHOOSE i \in 1..Len(axisStr) :
           axisStr[i] = " " /\ \A j \in 1..(i - 1) : axisStr[j] # " "
    ELSE 0

\* the parsing loop of ConfigureFromDevice: while the delimiter is found, the
\* token before it is pushed if not empty and erased with the delimiter; the
\* rest is pushed if not empty
RECURSIVE SplitInstalledAxes(_, _)
SplitInstalledAxes(axisStr, axes) ==
  LET pos == FindDelimiter(axisStr)
      token == SubSeq(axisStr, 1, pos - 1)
  IN  IF pos = 0
        THEN IF axisStr # <<>> THEN Append(axes, axisStr) ELSE axes
        ELSE SplitInstalledAxes(SubSeq(axisStr, pos + 1, Len(axisStr)),
                                IF token # <<>> THEN Append(axes, token) ELSE axes)

\* the constructor's m_availableAxes, each name as a string of characters
ConstructedAxes(f) == [i \in 1..Len(DefaultAxes(f)) |-> <<DefaultAxes(f)[i]>>]

\* PIController / ACSController::ConfigureFromDevice: m_availableAxes from
\* device.InstalledAxes, the family's default axes when the string is empty
ConfigureFromDevice(f, installedAxes) ==
  IF installedAxes # <<>> THEN SplitInstalledAxes(installedAxes, <<>>)
  ELSE ConstructedAxes(f)

\* m_availableAxes of the controller a manager constructs for record d: the
\* gantry manager's Initialize makes an ACSController and does not configure
\* it; the stage manager's CreateRealDevice makes a PIController and calls
\* ConfigureFromDevice with the record's installAxes
ControllerAxes(kind, d, axes) ==
  IF kind = "ACS" THEN ConstructedAxes("ACS")
  ELSE ConfigureFromDevice("PI", axes[d])

\* GetDeviceNames(): m_deviceNames of the gantry manager; of the stage
\* manager the keys of m_deviceConfigs in hardware mode and m_mockDeviceNames
\* in mock mode
GetDeviceNames ==
  IF mgrKind = "ACS" THEN m_deviceNames
  ELSE IF mgrKind = "PIhw" THEN DOMAIN m_deviceConfigs
  ELSE Range(m_mockDeviceNames)

\* Config::Motion::GetAllDevices(): the records of "MotionDevices"; none when
\* ConfigManager::GetConfig returned empty JSON
GetAllDevices(source) == IF source = "ok" THEN Devices ELSE {}

\* the built-in device list: CreateDefaultConfigs (hex-left, hex-right,
\* hex-bottom) of the stage manager, the fallback gantry-main of the gantry
\* manager; the defaults take the first names, hex-bottom, hex-left and
\* hex-right being 1, 2 and 3
DefaultDevices(kind) == IF kind = "ACS" THEN {1} ELSE {1, 2, 3}

\* the names CreateDefaultConfigs pushes to m_mockDeviceNames, in its order:
\* hex-left, hex-right, hex-bottom
DefaultMockNames == <<2, 3, 1>>

\* isEnabled of a PIDeviceConfig made by PIDeviceConfig(name, ip, port), as
\* AddDeviceConfig and CreateDefaultConfigs make it: the struct is declared
\* in a header that is not among the sources, and a record made this way is
\* taken to be enabled
DefaultIsEnabled == TRUE

\* what LoadDevicesFromConfig leaves in m_deviceConfigs: try { the records
\* of GetAllDevices } catch (std::exception) { the defaults }
LoadedDevices ==
  IF cfgSource = "throws" THEN DefaultDevices(mgrKind)
  ELSE LoadDevicesFromConfig(mgrKind, cfgEnabled, cfgType)
         \cap GetAllDevices(cfgSource)

\* config.isEnabled of the entry LoadDevicesFromConfig stores for d:
\* device.isEnabled of the record; of a built-in default, true in the gantry
\* manager (fallback.isEnabled = true) and what the constructor of
\* PIDeviceConfig leaves in the stage manager
StoredEnabled(d) ==
  IF cfgSource = "throws" THEN (mgrKind = "ACS" \/ DefaultIsEnabled)
  ELSE cfgEnabled[d]

\* m_deviceConfigs as LoadDevicesFromConfig leaves it
LoadedConfigs == [d \in LoadedDevices |-> StoredEnabled(d)]

\* m_deviceConfigs with no entry
NoConfigs == [d \in {} |-> TRUE]

\* m_deviceConfigs.erase of the entry of d
EraseConfig(configs, d) == [e \in (DOMAIN configs) \ {d} |-> configs[e]]

\* the names of S in the order in which GetAllDevices returns their records:
\* the order of the names
RECURSIVE InRecordOrder(_)
InRecordOrder(S) ==
  IF S = {} THEN <<>>
  ELSE LET d == CHOOSE x \in S : \A y \in S : x <= y
       IN  <<d>> \o InRecordOrder(S \ {d})

\* what the stage manager's LoadDevicesFromConfig leaves in m_mockDeviceNames:
\* cleared, then every record kept is pushed, or the defaults are in the
\* order of CreateDefaultConfigs; the gantry manager has none
MockNamesLoaded ==
  IF mgrKind = "ACS" THEN <<>>
  ELSE IF cfgSource = "throws" THEN DefaultMockNames
  ELSE InRecordOrder(LoadedDevices)

\* a vector of n elements, all false
AllFalse(n) == [i \in 1..n |-> FALSE]

\* no controller is registered under a name
UnitNone == [thread |-> "none", cache |-> "none"]

\* a controller as its constructor leaves it: StartCommunicationThread() has
\* run and the cache maps are empty
UnitConstructed == [thread |-> "running", cache |-> "empty"]

\* the poll thread and cache of a controller after Connect(ip, port), called
\* when m_isConnected was conn: nothing when connected or when the session
\* open fails; else the stage controller writes its cache maps for every
\* available axis, and the gantry controller writes m_axisPositions when its
\* GetPositions succeeded (seeded)
UnitAfterConnect(u, conn, ok, seeded) ==
  IF conn \/ ~ok \/ ~seeded THEN u ELSE [u EXCEPT !.cache = "seeded"]

\* the poll thread and cache of a controller after Disconnect(), called when
\* m_isConnected was conn: nothing when not connected; else the stage
\* controller has run StopCommunicationThread(), the gantry controller has not
UnitAfterDisconnect(kind, u, conn) ==
  IF conn /\ kind # "ACS" THEN [u EXCEPT !.thread = "stopped"] ELSE u

\* the state a manager's constructor leaves
ManagerConstructed ==
  /\ m_isInitialized = FALSE
  /\ m_deviceConfigs = LoadedConfigs
  /\ m_deviceNames = {}
  /\ m_mockDeviceNames = MockNamesLoaded
  /\ m_mockConnectionStates = AllFalse(Len(MockNamesLoaded))
  /\ m_controllers = {}
  /\ devConnected = [d \in Devices |-> FALSE]
  /\ devState = [d \in Devices |-> UnitNone]
  /\ m_devicesMutex = "free"
  /\ mgrPc = "idle"
  /\ mgrTodo = {}
  /\ allSuccess = TRUE
  /\ mgrLastOp = "none"
  /\ mgrLastRet = "true"
  /\ connectCalls = [d \in Devices |-> 0]
  /\ disconnectCalls = [d \in Devices |-> 0]
  /\ wasConnected = {}
  /\ mgrDev = 0
  /\ m_realDevices = [d \in Devices |-> 0]
  /\ destroyed = {}
  /\ thrPc = [t \in Threads |-> "idle"]
  /\ thrDev = [t \in Threads |-> 0]
  /\ thrPtr = [t \in Threads |-> 0]
  /\ thrCfg = [t \in Threads |-> "none"]
  /\ usedAfterFree = FALSE

\* a freshly constructed manager
InitManager ==
  /\ cfgSource = "ok"
  /\ mgrKind \in {"ACS", "PIhw", "PImock"}
  /\ cfgEnabled \in [Devices -> BOOLEAN]
  /\ openOk \in [Devices -> BOOLEAN]
  /\ stopOk \in [Devices -> BOOLEAN]
  /\ cfgType = [d \in Devices |-> KindFamily(mgrKind)]
  /\ cfgAxes = [d \in Devices |-> UsualAxes(KindFamily(mgrKind))]
  /\ ManagerConstructed

\* no manager acts: the controller is used on its own
NoManager ==
  /\ InitManager
  /\ mgrKind = "ACS"
  /\ cfgEnabled = [d \in Devices |-> TRUE]
  /\ openOk = [d \in Devices |-> TRUE]
  /\ stopOk = [d \in Devices |-> TRUE]

vars == <<devVars>>

-----------------------------------------------------------------------------
(* SpecLife: Connect and Disconnect called in any order on one controller,  *)
(* interleaved with its poll thread.                                        *)

InitLife == InitController /\ NoManager /\ HwAtRest /\ callsLeft = 0

NextLife ==
  \/ Connect
  \/ ConnectSteps
  \/ Disconnect
  \/ DisconnectSteps
  \/ CommunicationThreadFunc

SpecLife == InitLife /\ [][NextLife]_vars

LiveLoops == IF ThreadAlive THEN 1 ELSE 0

\* C1: the hardware session is closed only after the poll loop has been
\* signalled to stop and has terminated, so no poll-cycle hardware call is
\* ever issued on a closed session (both families).
C1_CloseAfterLoopStopped ==
  ~pollCallOnClosed /\ ~closedWhileAlive

\* C2: between operations, IsConnected() implies the poll loop thread is alive.
C2_ConnectedImpliesLoopAlive ==
  (callerPc = "idle" /\ m_isConnected) => ThreadAlive

\* C10: Connect on an already connected controller returns true, opens no
\* second session and leaves exactly one live poll loop.
C10_ConnectTwice ==
  (lastOp = "Connect" /\ preConnected) =>
     (lastRet = "true" /\ ~openIssued /\ hwSession = "open" /\ LiveLoops = 1)

\* C11: Disconnect called on a disconnected controller reports success (true
\* from the gantry family, a plain return from the stage family, whose
\* Disconnect is void), issues no vendor call, and leaves IsConnected() false.
C11_DisconnectWhenDisconnected ==
  (lastOp = "Disconnect" /\ preDisconnect = "disconnected") =>
     /\ lastRet = IF family = "ACS" THEN "true" ELSE "void"
     /\ hwIssued = <<>>
     /\ ~m_isConnected
     /\ callerPc = "idle"

\* the vendor calls of a Disconnect that has run to its end
StopThenClose ==
  /\ Len(hwIssued) = 2
  /\ hwIssued[1].call = "stop"
  /\ hwIssued[2].call = "close"

\* C13: a Disconnect called on a connected controller issues the stop-all-axes
\* request, then the session close whatever the stop reported, and
\* IsConnected() is false when it returns whatever both reported.
C13_StopThenCloseAlways ==
  (lastOp = "Disconnect" /\ preDisconnect = "connected") =>
     (StopThenClose /\ ~m_isConnected /\ callerPc = "idle")

\* a Disconnect whose stop request and close both reported an error
C13_Witness ==
  /\ lastOp = "Disconnect" /\ preDisconnect = "connected"
  /\ StopThenClose /\ ~hwIssued[1].ok /\ ~hwIssued[2].ok
  /\ ~m_isConnected

\* C14: a Disconnect called on a connected controller returns false exactly
\* when the session close reported an error; a failed stop request alone does
\* not make it return false.
C14_FalseIffCloseFailed ==
  (lastOp = "Disconnect" /\ preDisconnect = "connected" /\ StopThenClose) =>
     (lastRet = "false" <=> ~hwIssued[2].ok)

\* a step of the poll thread that issues a vendor read: the position query
\* of a GetPositions that found the controller connected, the stage family's
\* PI_IsMoving over all axes, and the status and servo queries of the loops
\* over the axes
PollIssuesRead ==
  \/ (PollPositionsCall /\ m_isConnected /\ m_availableAxes # <<>>)
  \/ PI_PollMovingCall
  \/ PI_PollServoQuery
  \/ ACS_PollMovingQuery
  \/ (ACS_PollServoQuery /\ m_isConnected)

\* C15: when the vendor open call fails, Connect returns false and the
\* controller stays Disconnected: IsConnected() is false, no valid handle is
\* kept, and until another operation is called the poll loop issues no
\* hardware read.
C15_FailedOpenStaysDisconnected ==
  /\ []((lastOp = "Connect" /\ lastRet = "false") =>
          (~m_isConnected /\ m_controllerId = InvalidId))
  /\ [][(lastOp = "Connect" /\ lastRet = "false") => ~PollIssuesRead]_vars

\* a gantry controller that was connected and disconnected is told to
\* disconnect again
C11_Witness ==
  /\ lastOp = "Disconnect" /\ preDisconnect = "disconnected"
  /\ family = "ACS" /\ lastRet = "true"
  /\ closedWhileAlive

-----------------------------------------------------------------------------
(* SpecMove: one controller is connected, then moved and queried in any     *)
(* order while its poll thread runs and the hardware carries the motions    *)
(* out.                                                                     *)

InitMove ==
  /\ InitController /\ NoManager /\ HwAtRest /\ hwPos["X"] = 0
  /\ callsLeft = MaxMoveCalls

NextMove ==
  \/ Connect
  \/ ConnectStepsAccepted
  \/ WithinCalls(PI_MoveSend(FALSE))
  \/ PI_MoveMark
  \/ WithinCalls(ACS_Move(FALSE))
  \/ WithinCalls(IsMoving)
  \/ IsMovingSteps
  \/ Tick
  \/ HwStart
  \/ HwFinish
  \/ CommunicationThreadFunc

SpecMove == InitMove /\ [][NextMove]_vars

\* C6: IsMoving(axis) called directly after a non-blocking move on that axis
\* returned true, the motion not yet finished, returns true.
C6_OptimisticMoveFlag ==
  (lastOp = "IsMoving" /\ preFresh) => lastRet = "true"

\* a Connect has returned true and the controller is still connected
ConnectDone == m_isConnected /\ callOp # "Connect"

\* C17: in every state after a successful Connect, the key sets of the cached
\* position, moving and servo maps are exactly the controller's axis set,
\* whatever poll cycles, moves and status queries have run.
C17_CacheKeysAreAxes ==
  ConnectDone =>
     /\ DOMAIN m_axisPositions = Range(m_availableAxes)
     /\ DOMAIN m_axisMoving = Range(m_availableAxes)
     /\ DOMAIN m_axisServoEnabled = Range(m_availableAxes)

\* a step in which MoveToPosition or MoveRelative is called
MoveCalled ==
  \/ PI_MoveSend(FALSE) \/ PI_MoveSend(TRUE)
  \/ ACS_Move(FALSE) \/ ACS_Move(TRUE)

\* the axis argument of the move called in this step
MoveCalledAxis == IF lastOp' = "busy" THEN callAxis' ELSE lastAxis'

\* C16: a move called while Disconnected, or with an axis that is not in the
\* controller's configured axis set, returns false in that step, sends no
\* command to the hardware and leaves every cache entry as it was.
C16_MoveFailsFast ==
  [][(MoveCalled /\ (~m_isConnected \/ MoveCalledAxis \notin Range(m_availableAxes)))
        => /\ lastRet' = "false"
           /\ hwIssued' = <<>>
           /\ UNCHANGED <<m_axisPositions, m_axisMoving, m_axisServoEnabled>>]_vars

-----------------------------------------------------------------------------
(* SpecBlock: one controller is connected and moved with blocking moves     *)
(* while its poll thread runs and the hardware carries the motions out.     *)

\* the motions of this specification end within the bound: the wait sleeps
\* only while less than the bound has elapsed
BoundedWaitSleep == waitElapsed < MaxBlockingWaitMs /\ WaitSleep

InitBlock ==
  /\ InitController /\ NoManager /\ HwAtRest /\ hwPos["X"] = 0
  /\ callsLeft = MaxMotionCalls

NextBlock ==
  \/ Connect
  \/ ConnectStepsAccepted
  \/ WithinCalls(PI_MoveSend(TRUE))
  \/ PI_MoveMark
  \/ WithinCalls(ACS_Move(TRUE))
  \/ WaitEnter
  \/ PI_WaitReadCache
  \/ PI_WaitQuery
  \/ PI_WaitQueryStore
  \/ PI_WaitWrite
  \/ ACS_WaitCheck
  \/ ACS_WaitQuery
  \/ ACS_WaitStore
  \/ BoundedWaitSleep
  \/ HwStart
  \/ HwFinish
  \/ CommunicationThreadFunc

SpecBlock == InitBlock /\ [][NextBlock]_vars

\* C7: when a blocking move returns true the hardware axis is idle at the
\* commanded position.
C7_BlockingMoveFinished ==
  (lastOp \in {"MoveRelative", "MoveToPosition"} /\ lastBlocking /\ lastRet = "true")
     => (hwMotion[lastAxis] = "idle" /\ hwPos[lastAxis] = lastTarget)

-----------------------------------------------------------------------------
(* SpecWait: one controller is connected, an axis is set in motion that     *)
(* never ends, and WaitForMotionCompletion is called on it with the         *)
(* timeouts of Timeouts.                                                    *)

InitWait ==
  /\ InitController /\ NoManager /\ HwInMotion /\ hwPos["X"] = 0
  /\ callsLeft = 0

\* the servo query of the poll cycle is answered whenever the session is
\* open: the servo states do not enter the wait, and this specification
\* follows the failures of the position and motion queries only
ServoAnswered ==
  (pollPc \in {"svQuery", "asQuery"} /\ m_isConnected /\ CanSucceed(TRUE))
     => pollPc' \in {"svStore", "asWrite"}

\* the position query of the poll cycle is answered whenever the session is
\* open: the positions do not enter the wait either
PositionsAnswered ==
  (pollPc = "posCall" /\ m_isConnected /\ CanSucceed(TRUE))
     => pollPc' = "posWrite"

NextWait ==
  \/ Connect
  \/ ConnectStepsAccepted
  \/ WaitForMotionCompletion
  \/ WaitSteps
  \/ (CommunicationThreadFunc /\ ServoAnswered /\ PositionsAnswered)

SpecWait == InitWait /\ [][NextWait]_vars

\* where the calling thread is while it is inside WaitForMotionCompletion
WaitPcs == {"wEnter", "wCheck", "wQuery", "wStore", "wCached", "wWrite", "wSleep"}

\* the wait is inside its loop
InWaitLoop == callerPc \in WaitPcs \ {"wEnter"}

\* a step of the calling thread inside the wait
WaitStepTaken == callerPc \in WaitPcs /\ callerPc' # callerPc

\* the calling thread is scheduled: a thread inside the wait, none of whose
\* steps has anything to wait for but m_mutex, which no step of this
\* specification keeps, takes its next step
WaitFair == []<>(callerPc \notin WaitPcs) \/ []<><<WaitStepTaken>>_vars

SpecWaitLive == SpecWait /\ WaitFair

\* the number of checks after which the loop has timed out at the latest:
\* one every 50 ms until the whole seconds elapsed exceed the timeout
MaxChecks(timeoutMs) ==
  ((timeoutMs \div 1000) + 1) * (1000 \div WaitSleepMs) + 1

C9_TimeoutBound ==
  (lastOp = "WaitForMotionCompletion" /\ lastRet = "false" /\ checkCount > 0)
     => waitElapsed <= waitTimeout + WaitSleepMs

-----------------------------------------------------------------------------
(* The device managers: ACSControllerManagerStandardized and                *)
(* PIControllerManagerStandardized in hardware and in mock mode.  A device  *)
(* is seen through what its controller's Connect and Disconnect return.     *)

\* Connect(ip, port) of a controller as the manager sees it: true at once when
\* connected, else the result of the session open
DeviceConnect(conn, ok) == [ret |-> conn \/ ok, conn |-> conn \/ ok]

\* ACSController::Disconnect as the manager sees it: true at once when not
\* connected, else whether stopping and closing reported no error; the
\* controller is disconnected either way
DeviceDisconnect(conn, ok) == [ret |-> (~conn) \/ ok, conn |-> FALSE]

\* std::lock_guard on m_devicesMutex, a std::mutex, by the thread that holds
\* it: undefined; the builds either block forever or throw std::system_error
RelockOutcomes == {"hung", "thrown"}

envVars == <<mgrKind, cfgEnabled, cfgType, cfgAxes, openOk, stopOk, cfgSource>>

\* a manager operation ends with ret
MgrReturns(op, ret) ==
  /\ mgrPc' = "idle"
  /\ mgrTodo' = {}
  /\ mgrLastOp' = op
  /\ mgrLastRet' = ret

\* a manager operation meets the mutex it already holds
MgrRelocks(op) ==
  \E o \in RelockOutcomes :
    IF o = "hung"
      THEN /\ mgrPc' = "hung"
           /\ mgrLastOp' = op
           /\ mgrLastRet' = "none"
           /\ UNCHANGED <<mgrTodo, m_devicesMutex>>
      ELSE /\ MgrReturns(op, "thrown")
           /\ m_devicesMutex' = "free"

\* the entry a loop over the registry visits next
NextEntry(todo) == CHOOSE d \in todo : \A e \in todo : d <= e

\* the calling thread goes on inside a manager operation
MgrGoesOn(pc) ==
  /\ mgrPc' = pc
  /\ mgrLastOp' = "busy"
  /\ mgrLastRet' = "none"
  /\ UNCHANGED mgrTodo

\* FindMockDeviceIndex(deviceName): std::distance(begin, std::find(begin,
\* end, deviceName)), counted from 1: the first position that holds the
\* name, one past the last when none does
FindMockDeviceIndex(d) ==
  IF d \in Range(m_mockDeviceNames)
    THEN CHOOSE i \in DOMAIN m_mockDeviceNames :
           /\ m_mockDeviceNames[i] = d
           /\ \A j \in 1..(i - 1) : m_mockDeviceNames[j] # d
    ELSE Len(m_mockDeviceNames) + 1

\* index < m_mockDeviceNames.size() && index < m_mockConnectionStates.size()
MockIndexInRange(index) ==
  index <= Len(m_mockDeviceNames) /\ index <= Len(m_mockConnectionStates)

\* IsDeviceConnected(deviceName).  The stage manager's IsRealDeviceConnected:
\* in hardware mode device && device->IsConnected() of GetRealDevice; in mock
\* mode (index < m_mockConnectionStates.size()) ? m_mockConnectionStates[index]
\* : false
IsDeviceConnected(d) ==
  IF mgrKind = "PImock"
    THEN LET index == FindMockDeviceIndex(d)
         IN  index <= Len(m_mockConnectionStates) /\ m_mockConnectionStates[index]
    ELSE d \in m_controllers /\ devConnected[d]

\* the PIDeviceConfig* of the threads once the nodes of the names in gone
\* have been erased from m_deviceConfigs (erase, clear): a pointer into one
\* of them dangles
FreedConfigs(gone) ==
  [t \in Threads |-> IF thrCfg[t] = "live" /\ thrDev[t] \in gone
                       THEN "freed" ELSE thrCfg[t]]


\* Initialize(): if (m_isInitialized) return true.  The gantry manager, which
\* has no lock, clears m_controllers and m_deviceNames, runs
\* LoadDevicesFromConfig, makes a controller for every enabled entry of
\* m_deviceConfigs, pushes its name and sets m_isInitialized.  The stage
\* manager goes on to its LoadDevicesFromConfig
Initialize ==
  /\ mgrPc = "idle"
  /\ IF m_isInitialized
       THEN /\ MgrReturns("Initialize", "true")
            /\ UNCHANGED <<m_isInitialized, m_deviceConfigs, namesVars,
                           m_controllers, devConnected, devState>>
       ELSE IF mgrKind = "ACS"
         THEN /\ m_deviceConfigs' = LoadedConfigs
              /\ m_controllers' = {d \in LoadedDevices : LoadedConfigs[d]}
              /\ m_deviceNames' = {d \in LoadedDevices : LoadedConfigs[d]}
              /\ devConnected' = [d \in Devices |-> FALSE]
              /\ devState' = [d \in Devices |->
                                IF d \in LoadedDevices /\ LoadedConfigs[d]
                                  THEN UnitConstructed ELSE UnitNone]
              /\ m_isInitialized' = TRUE
              /\ MgrReturns("Initialize", "true")
              /\ UNCHANGED <<m_mockDeviceNames, m_mockConnectionStates>>
         ELSE /\ MgrGoesOn("inClear")
              /\ UNCHANGED <<m_isInitialized, m_deviceConfigs, namesVars,
                             m_controllers, devConnected, devState>>
  /\ mgrDev' = 0
  /\ UNCHANGED <<envVars, m_devicesMutex, allSuccess, connectCalls,
                 disconnectCalls, wasConnected>>
  /\ UNCHANGED unitVars

\* LoadDevicesFromConfig of the stage manager:
\* { lock_guard lock(m_devicesMutex); m_deviceConfigs.clear(); }
InitializeClear ==
  /\ mgrPc = "inClear"
  /\ m_devicesMutex = "free"
  /\ m_deviceConfigs' = NoConfigs
  /\ thrCfg' = FreedConfigs(DOMAIN m_deviceConfigs)
  /\ MgrGoesOn("inRead")
  /\ UNCHANGED <<envVars, namesVars, m_isInitialized, m_controllers,
                 devConnected, devState, m_devicesMutex, allSuccess, connectCalls,
                 disconnectCalls, wasConnected, mgrDev>>
  /\ UNCHANGED <<m_realDevices, destroyed, thrPc, thrDev, thrPtr, usedAfterFree,
                 selfVars, stopVars, raceVars, queueVars, appVars, connVars,
                 thrVars, cacheVars, pollVars, hwVars, callVars, waitVars,
                 retVars, obsVars>>

\* LoadDevicesFromConfig: m_mockDeviceNames.clear() and
\* m_mockConnectionStates.clear() with no lock held, then
\* Config::Motion::GetAllDevices(): its records of the stage family are to be
\* stored one by one; when it throws, CreateDefaultConfigs is to run
InitializeRead ==
  /\ mgrPc = "inRead"
  /\ m_mockDeviceNames' = <<>>
  /\ m_mockConnectionStates' = <<>>
  /\ mgrPc' = IF cfgSource = "throws" THEN "inDefaults" ELSE "inStore"
  /\ mgrTodo' = IF cfgSource = "throws" THEN {}
                ELSE LoadDevicesFromConfig(mgrKind, cfgEnabled, cfgType)
                       \cap GetAllDevices(cfgSource)
  /\ UNCHANGED <<mgrLastOp, mgrLastRet>>
  /\ UNCHANGED <<envVars, m_deviceNames, m_isInitialized, m_deviceConfigs,
                 m_controllers, devConnected, devState, m_devicesMutex,
                 allSuccess, connectCalls, disconnectCalls, wasConnected,
                 mgrDev>>
  /\ UNCHANGED unitVars

\* LoadDevicesFromConfig, one record: config.isEnabled = device.isEnabled;
\* { lock_guard lock(m_devicesMutex); m_deviceConfigs[device.name] = config; }
InitializeStore ==
  /\ mgrPc = "inStore"
  /\ mgrTodo # {}
  /\ m_devicesMutex = "free"
  /\ LET d == NextEntry(mgrTodo)
     IN  m_deviceConfigs' = Put(m_deviceConfigs, d, cfgEnabled[d])
  /\ mgrPc' = "inPush"
  /\ UNCHANGED <<mgrTodo, mgrLastOp, mgrLastRet>>
  /\ UNCHANGED <<envVars, namesVars, m_isInitialized, m_controllers,
                 devConnected, devState, m_devicesMutex, allSuccess,
                 connectCalls, disconnectCalls, wasConnected, mgrDev>>
  /\ UNCHANGED unitVars

\* LoadDevicesFromConfig, the same record, the lock released:
\* m_mockDeviceNames.push_back(device.name);
\* m_mockConnectionStates.push_back(false)
InitializePush ==
  /\ mgrPc = "inPush"
  /\ LET d == NextEntry(mgrTodo)
     IN  /\ m_mockDeviceNames' = Append(m_mockDeviceNames, d)
         /\ m_mockConnectionStates' = Append(m_mockConnectionStates, FALSE)
         /\ mgrTodo' = mgrTodo \ {d}
  /\ mgrPc' = "inStore"
  /\ UNCHANGED <<mgrLastOp, mgrLastRet>>
  /\ UNCHANGED <<envVars, m_deviceNames, m_isInitialized, m_deviceConfigs,
                 m_controllers, devConnected, devState, m_devicesMutex,
                 allSuccess, connectCalls, disconnectCalls, wasConnected,
                 mgrDev>>
  /\ UNCHANGED unitVars

\* CreateDefaultConfigs, run when GetAllDevices has thrown: under one
\* lock_guard the three defaults are stored and pushed
InitializeDefaults ==
  /\ mgrPc = "inDefaults"
  /\ m_devicesMutex = "free"
  /\ m_deviceConfigs' =
       [d \in (DOMAIN m_deviceConfigs) \cup DefaultDevices(mgrKind) |->
          IF d \in DefaultDevices(mgrKind) THEN DefaultIsEnabled
          ELSE m_deviceConfigs[d]]
  /\ m_mockDeviceNames' = m_mockDeviceNames \o DefaultMockNames
  /\ m_mockConnectionStates' =
       m_mockConnectionStates \o AllFalse(Len(DefaultMockNames))
  /\ MgrGoesOn("inStore")
  /\ UNCHANGED <<envVars, m_deviceNames, m_isInitialized, m_controllers,
                 devConnected, devState, m_devicesMutex, allSuccess,
                 connectCalls, disconnectCalls, wasConnected, mgrDev>>
  /\ UNCHANGED unitVars

\* Initialize: LoadDevicesFromConfig has returned; m_isInitialized = true;
\* return true
InitializeEnd ==
  /\ mgrPc = "inStore"
  /\ mgrTodo = {}
  /\ m_isInitialized' = TRUE
  /\ MgrReturns("Initialize", "true")
  /\ UNCHANGED <<envVars, namesVars, m_deviceConfigs, m_controllers,
                 devConnected, devState, m_devicesMutex, allSuccess, connectCalls,
                 disconnectCalls, wasConnected, mgrDev>>
  /\ UNCHANGED unitVars

\* the steps of the stage manager's Initialize after its first, over a
\* configuration source that does not throw
InitializeSteps ==
  \/ InitializeClear
  \/ InitializeRead
  \/ InitializeStore
  \/ InitializePush
  \/ InitializeEnd

\* ConnectAll(): if (!m_isInitialized) return false; allSuccess = true; the
\* stage manager in hardware mode takes m_devicesMutex for the whole loop; in
\* mock mode the loop runs over the positions of m_mockDeviceNames.  The
\* lock_guard is passed when no other thread holds the mutex
ConnectAllBegin ==
  /\ mgrPc = "idle"
  /\ (m_isInitialized /\ mgrKind = "PIhw") => m_devicesMutex = "free"
  /\ connectCalls' = [d \in Devices |-> 0]
  /\ IF ~m_isInitialized
       THEN /\ MgrReturns("ConnectAll", "false")
            /\ UNCHANGED <<m_devicesMutex, allSuccess>>
       ELSE /\ mgrPc' = "connAll"
            /\ mgrTodo' = IF mgrKind = "ACS" THEN m_controllers
                          ELSE IF mgrKind = "PIhw" THEN DOMAIN m_deviceConfigs
                          ELSE DOMAIN m_mockDeviceNames
            /\ allSuccess' = TRUE
            /\ m_devicesMutex' = IF mgrKind = "PIhw" THEN "held" ELSE m_devicesMutex
            /\ mgrLastOp' = "busy"
            /\ mgrLastRet' = "none"
  /\ mgrDev' = 0
  /\ UNCHANGED <<envVars, namesVars, m_isInitialized, m_deviceConfigs, m_controllers,
                 devConnected, devState, disconnectCalls, wasConnected>>
  /\ UNCHANGED unitVars

\* one pass of the loop of the gantry manager's ConnectAll:
\* FindDeviceConfig, controller->Connect, allSuccess = false on failure
ACS_ConnectAllStep ==
  /\ mgrPc = "connAll"
  /\ mgrKind = "ACS"
  /\ mgrTodo # {}
  /\ LET d == NextEntry(mgrTodo)
         r == DeviceConnect(devConnected[d], openOk[d])
     IN  /\ mgrTodo' = mgrTodo \ {d}
         /\ IF d \in DOMAIN m_deviceConfigs
              THEN /\ connectCalls' = [connectCalls EXCEPT ![d] = @ + 1]
                   /\ devConnected' = [devConnected EXCEPT ![d] = r.conn]
                   /\ \E seeded \in BOOLEAN :
                        devState' = [devState EXCEPT ![d] =
                           UnitAfterConnect(@, devConnected[d], openOk[d], seeded)]
                   /\ allSuccess' = (allSuccess /\ r.ret)
              ELSE /\ allSuccess' = FALSE
                   /\ UNCHANGED <<connectCalls, devConnected, devState>>
  /\ UNCHANGED <<envVars, namesVars, m_isInitialized, m_deviceConfigs, m_controllers,
                 m_devicesMutex, mgrPc, mgrLastOp, mgrLastRet, disconnectCalls,
                 wasConnected, mgrDev>>
  /\ UNCHANGED unitVars

\* one pass of the loop of the stage manager's ConnectAll in hardware mode:
\* an entry whose config.isEnabled is set goes to ConnectDevice, whose
\* IsRealDeviceConnected -> GetRealDevice locks m_devicesMutex, which
\* ConnectAll holds
PIhw_ConnectAllStep ==
  /\ mgrPc = "connAll"
  /\ mgrKind = "PIhw"
  /\ mgrTodo # {}
  /\ LET d == NextEntry(mgrTodo)
     IN  IF m_deviceConfigs[d]
           THEN MgrRelocks("ConnectAll")
           ELSE /\ mgrTodo' = mgrTodo \ {d}
                /\ UNCHANGED <<m_devicesMutex, mgrPc, mgrLastOp, mgrLastRet>>
  /\ UNCHANGED <<envVars, namesVars, m_isInitialized, m_deviceConfigs, m_controllers,
                 devConnected, devState, allSuccess, connectCalls, disconnectCalls,
                 wasConnected, mgrDev>>
  /\ UNCHANGED unitVars

\* m_mockConnectionStates[i] = (i % 2 == 0): i is the position in
\* m_mockDeviceNames counted from 0, pos the same position counted from 1
MockConnectPattern(pos) == (pos - 1) % 2 = 0

\* one pass of the loop of the stage manager's ConnectAll in mock mode
PImock_ConnectAllStep ==
  /\ mgrPc = "connAll"
  /\ mgrKind = "PImock"
  /\ mgrTodo # {}
  /\ LET pos == NextEntry(mgrTodo)
     IN  /\ mgrTodo' = mgrTodo \ {pos}
         /\ m_mockConnectionStates' =
              IF pos <= Len(m_mockConnectionStates)
                THEN [m_mockConnectionStates EXCEPT ![pos] = MockConnectPattern(pos)]
                ELSE m_mockConnectionStates
  /\ UNCHANGED <<envVars, m_deviceNames, m_mockDeviceNames, m_isInitialized,
                 m_deviceConfigs, m_controllers, devConnected, devState,
                 m_devicesMutex, mgrPc, allSuccess, mgrLastOp, mgrLastRet,
                 connectCalls, disconnectCalls, wasConnected, mgrDev>>
  /\ UNCHANGED unitVars

\* ConnectAll: the loop is over; the lock is released; return allSuccess
ConnectAllEnd ==
  /\ mgrPc = "connAll"
  /\ mgrTodo = {}
  /\ MgrReturns("ConnectAll", Ret(allSuccess))
  /\ m_devicesMutex' = "free"
  /\ UNCHANGED <<envVars, namesVars, m_isInitialized, m_deviceConfigs, m_controllers,
                 devConnected, devState, allSuccess, connectCalls, disconnectCalls,
                 wasConnected, mgrDev>>
  /\ UNCHANGED unitVars

\* std::fill(m_mockConnectionStates.begin(), m_mockConnectionStates.end(), v)
FillConnectionStates(states, index, v) == [i \in DOMAIN states |-> v]

\* m_mockConnectionStates[index] = v
StoreConnectionState(states, index, v) == [states EXCEPT ![index] = v]

\* ConnectDevice(deviceName), called on its own.  In hardware mode the stage
\* manager begins with IsRealDeviceConnected, whose GetRealDevice looks the
\* name up under m_devicesMutex: a controller found is asked whether it is
\* connected, a name not found goes on to CreateRealDevice
ConnectDevice ==
  /\ mgrPc = "idle"
  /\ mgrKind = "PIhw" => m_devicesMutex = "free"
  /\ \E d \in Devices :
       (mgrDev' = d) /\
       LET r == DeviceConnect(devConnected[d], openOk[d])
           index == FindMockDeviceIndex(d)
       IN  IF mgrKind = "ACS"
             THEN \* m_controllers.find, FindDeviceConfig, Connect
                  IF d \in m_controllers /\ d \in DOMAIN m_deviceConfigs
                    THEN /\ devConnected' = [devConnected EXCEPT ![d] = r.conn]
                         /\ \E seeded \in BOOLEAN :
                              devState' = [devState EXCEPT ![d] =
                                 UnitAfterConnect(@, devConnected[d], openOk[d],
                                                  seeded)]
                         /\ MgrReturns("ConnectDevice", Ret(r.ret))
                         /\ UNCHANGED <<m_controllers, m_mockConnectionStates>>
                    ELSE /\ MgrReturns("ConnectDevice", "false")
                         /\ UNCHANGED <<devConnected, devState, m_controllers,
                                        m_mockConnectionStates>>
           ELSE IF mgrKind = "PIhw"
             THEN /\ MgrGoesOn(IF d \in m_controllers THEN "cdRead" ELSE "cdCfg")
                  /\ UNCHANGED <<devConnected, devState, m_controllers,
                                 m_mockConnectionStates>>
           ELSE \* mock mode: FindMockDeviceIndex;
                \* m_mockConnectionStates[index] = true
                IF MockIndexInRange(index)
                  THEN /\ m_mockConnectionStates' =
                            StoreConnectionState(m_mockConnectionStates, index, TRUE)
                       /\ MgrReturns("ConnectDevice", "true")
                       /\ UNCHANGED <<devConnected, devState, m_controllers>>
                  ELSE /\ MgrReturns("ConnectDevice", "false")
                       /\ UNCHANGED <<devConnected, devState, m_controllers,
                                      m_mockConnectionStates>>
  /\ UNCHANGED <<envVars, m_deviceNames, m_mockDeviceNames, m_isInitialized,
                 m_deviceConfigs, m_devicesMutex, allSuccess, connectCalls,
                 disconnectCalls, wasConnected>>
  /\ UNCHANGED unitVars

\* IsRealDeviceConnected: device && device->IsConnected() on the pointer
\* GetRealDevice returned, with no lock held: connected: return true; else
\* CreateRealDevice.  A controller destroyed since the lookup is read after
\* its destruction and gives either answer
MgrIsRealDeviceConnectedRead ==
  /\ mgrPc = "cdRead"
  /\ \E connected \in BOOLEAN :
       /\ mgrDev \in m_controllers => (connected <=> devConnected[mgrDev])
       /\ IF connected
            THEN MgrReturns("ConnectDevice", "true")
            ELSE MgrGoesOn("cdCfg")
  /\ UNCHANGED <<envVars, namesVars, m_isInitialized, m_deviceConfigs,
                 m_controllers, devConnected, devState, m_devicesMutex, allSuccess,
                 connectCalls, disconnectCalls, wasConnected, mgrDev>>
  /\ UNCHANGED unitVars

\* CreateRealDevice, called by ConnectDevice: GetMutableDeviceConfig looks the
\* record up under m_devicesMutex; no record: return false
MgrGetMutableDeviceConfig ==
  /\ mgrPc = "cdCfg"
  /\ m_devicesMutex = "free"
  /\ IF mgrDev \in DOMAIN m_deviceConfigs
       THEN MgrGoesOn("cdConnect")
       ELSE MgrReturns("ConnectDevice", "false")
  /\ UNCHANGED <<envVars, namesVars, m_isInitialized, m_deviceConfigs, m_controllers,
                 devConnected, devState, m_devicesMutex, allSuccess, connectCalls,
                 disconnectCalls, wasConnected, mgrDev>>
  /\ UNCHANGED unitVars

\* CreateRealDevice: a new PIController is made, configured and connected,
\* with no lock held; a failed Connect: return false
MgrCreateRealDeviceConnect ==
  /\ mgrPc = "cdConnect"
  /\ IF openOk[mgrDev]
       THEN MgrGoesOn("cdStore")
       ELSE MgrReturns("ConnectDevice", "false")
  /\ UNCHANGED <<envVars, namesVars, m_isInitialized, m_deviceConfigs, m_controllers,
                 devConnected, devState, m_devicesMutex, allSuccess, connectCalls,
                 disconnectCalls, wasConnected, mgrDev>>
  /\ UNCHANGED unitVars

\* CreateRealDevice: under m_devicesMutex the connected controller is moved
\* into m_realDevices; return true
MgrCreateRealDeviceStore ==
  /\ mgrPc = "cdStore"
  /\ m_devicesMutex = "free"
  /\ m_controllers' = m_controllers \cup {mgrDev}
  /\ devConnected' = [devConnected EXCEPT ![mgrDev] = TRUE]
  /\ devState' = [devState EXCEPT ![mgrDev] =
                    UnitAfterConnect(UnitConstructed, FALSE, TRUE, TRUE)]
  /\ MgrReturns("ConnectDevice", "true")
  /\ UNCHANGED <<envVars, namesVars, m_isInitialized, m_deviceConfigs,
                 m_devicesMutex, allSuccess, connectCalls, disconnectCalls,
                 wasConnected, mgrDev>>
  /\ UNCHANGED unitVars

\* the steps of a ConnectDevice in hardware mode after its first
ConnectDeviceSteps ==
  \/ MgrIsRealDeviceConnectedRead
  \/ MgrGetMutableDeviceConfig
  \/ MgrCreateRealDeviceConnect
  \/ MgrCreateRealDeviceStore

\* DisconnectDevice(deviceName), called on its own.
\* gantry manager: m_controllers.find, return controller->Disconnect().
\* stage manager, hardware mode: lock m_devicesMutex; a name not in
\* m_realDevices returns false; else DestroyRealDevice runs with the mutex
\* held.
\* stage manager, mock mode: a name FindMockDeviceIndex does not find returns
\* false; else m_mockConnectionStates[index] = false; return true.
DisconnectDevice ==
  /\ mgrPc = "idle"
  /\ mgrKind = "PIhw" => m_devicesMutex = "free"
  /\ \E d \in Devices :
       /\ mgrDev' = d
       /\ wasConnected' = IF IsDeviceConnected(d) THEN {d} ELSE {}
       /\ IF mgrKind = "ACS"
            THEN IF d \in m_controllers
                   THEN LET r == DeviceDisconnect(devConnected[d], stopOk[d])
                        IN  /\ devConnected' = [devConnected EXCEPT ![d] = r.conn]
                            /\ devState' = [devState EXCEPT ![d] =
                                 UnitAfterDisconnect(mgrKind, @, devConnected[d])]
                            /\ MgrReturns("DisconnectDevice", Ret(r.ret))
                            /\ UNCHANGED <<m_controllers, m_devicesMutex,
                                           m_mockConnectionStates>>
                   ELSE /\ MgrReturns("DisconnectDevice", "false")
                        /\ UNCHANGED <<devConnected, devState, m_controllers,
                                       m_devicesMutex, m_mockConnectionStates>>
          ELSE IF mgrKind = "PIhw"
            THEN IF d \in m_controllers
                   THEN /\ MgrGoesOn("ddStop")
                        /\ m_devicesMutex' = "held"
                        /\ UNCHANGED <<devConnected, devState, m_controllers,
                                       m_mockConnectionStates>>
                   ELSE /\ MgrReturns("DisconnectDevice", "false")
                        /\ UNCHANGED <<devConnected, devState, m_controllers,
                                       m_devicesMutex, m_mockConnectionStates>>
          ELSE IF MockIndexInRange(FindMockDeviceIndex(d))
            THEN /\ m_mockConnectionStates' =
                      StoreConnectionState(m_mockConnectionStates,
                                           FindMockDeviceIndex(d), FALSE)
                 /\ MgrReturns("DisconnectDevice", "true")
                 /\ UNCHANGED <<devConnected, devState, m_controllers,
                                m_devicesMutex>>
            ELSE /\ MgrReturns("DisconnectDevice", "false")
                 /\ UNCHANGED <<devConnected, devState, m_controllers,
                                m_devicesMutex, m_mockConnectionStates>>
  /\ UNCHANGED <<envVars, m_deviceNames, m_mockDeviceNames, m_isInitialized,
                 m_deviceConfigs, allSuccess, connectCalls, disconnectCalls>>
  /\ UNCHANGED unitVars

\* DestroyRealDevice, called with m_devicesMutex held by DisconnectDevice or
\* RemoveDeviceConfig: it->second->StopAllAxes(), whose result is not looked
\* at; the controller stays connected
MgrDestroyRealDeviceStop ==
  /\ mgrPc \in {"ddStop", "rmStop"}
  /\ MgrGoesOn(IF mgrPc = "ddStop" THEN "ddDisconnect" ELSE "rmDisconnect")
  /\ UNCHANGED <<envVars, namesVars, m_isInitialized, m_deviceConfigs,
                 m_controllers, devConnected, devState, m_devicesMutex, allSuccess,
                 connectCalls, disconnectCalls, wasConnected, mgrDev>>
  /\ UNCHANGED unitVars

\* DestroyRealDevice: sleep_for(50 ms), then it->second->Disconnect(), the
\* mutex still held
MgrDestroyRealDeviceDisconnect ==
  /\ mgrPc \in {"ddDisconnect", "rmDisconnect"}
  /\ devConnected' = [devConnected EXCEPT ![mgrDev] = FALSE]
  /\ devState' = [devState EXCEPT ![mgrDev] =
                    UnitAfterDisconnect(mgrKind, @, devConnected[mgrDev])]
  /\ MgrGoesOn(IF mgrPc = "ddDisconnect" THEN "ddErase" ELSE "rmErase")
  /\ UNCHANGED <<envVars, namesVars, m_isInitialized, m_deviceConfigs,
                 m_controllers, m_devicesMutex, allSuccess, connectCalls,
                 disconnectCalls, wasConnected, mgrDev>>
  /\ UNCHANGED unitVars

\* DestroyRealDevice, after the controller's Disconnect: the entry is erased
\* from m_realDevices, which destroys the controller; then
\* GetMutableDeviceConfig locks the mutex this thread holds
MgrDestroyRealDeviceErase ==
  /\ mgrPc \in {"ddErase", "rmErase"}
  /\ m_controllers' = m_controllers \ {mgrDev}
  /\ devState' = [devState EXCEPT ![mgrDev] = UnitNone]
  /\ MgrRelocks(IF mgrPc = "ddErase" THEN "DisconnectDevice" ELSE "RemoveDeviceConfig")
  /\ UNCHANGED <<envVars, namesVars, m_isInitialized, m_deviceConfigs, devConnected,
                 allSuccess, connectCalls, disconnectCalls, wasConnected, mgrDev>>
  /\ UNCHANGED unitVars

\* the steps of DestroyRealDevice
DestroyRealDeviceSteps ==
  \/ MgrDestroyRealDeviceStop
  \/ MgrDestroyRealDeviceDisconnect
  \/ MgrDestroyRealDeviceErase

\* RemoveDeviceConfig(deviceName) of the stage manager, called on its own:
\* lock m_devicesMutex; a name in m_realDevices goes to DestroyRealDevice;
\* else the record, if there is one, is erased from m_deviceConfigs.
\* m_mockDeviceNames is left as it is.
MgrRemoveDeviceConfig ==
  /\ mgrPc = "idle"
  /\ mgrKind # "ACS"
  /\ m_devicesMutex = "free"
  /\ \E d \in Devices :
       /\ mgrDev' = d
       /\ IF d \in m_controllers
            THEN /\ MgrGoesOn("rmStop")
                 /\ m_devicesMutex' = "held"
                 /\ UNCHANGED m_deviceConfigs
            ELSE /\ m_deviceConfigs' = EraseConfig(m_deviceConfigs, d)
                 /\ MgrReturns("RemoveDeviceConfig",
                               Ret(d \in DOMAIN m_deviceConfigs))
                 /\ UNCHANGED m_devicesMutex
  /\ UNCHANGED <<envVars, namesVars, m_isInitialized, m_controllers, devConnected, devState,
                 allSuccess, connectCalls, disconnectCalls, wasConnected>>
  /\ UNCHANGED unitVars

\* AddDeviceConfig(deviceName, ipAddress, port) of the stage manager, for
\* any name: if (!IsValidDeviceName(deviceName)) return false; then lock
\* m_devicesMutex; PIDeviceConfig config(deviceName, ipAddress, port);
\* if (!ValidateDeviceConfig(config)) return false;
\* m_deviceConfigs[deviceName] = config; return true.
\* m_mockDeviceNames is left as it is.
AddDeviceConfig ==
  /\ mgrPc = "idle"
  /\ mgrKind # "ACS"
  /\ \E d \in Devices, validName \in BOOLEAN, validConfig \in BOOLEAN :
       /\ validName => m_devicesMutex = "free"
       /\ mgrDev' = d
       /\ m_deviceConfigs' = IF validName /\ validConfig
                               THEN Put(m_deviceConfigs, d, DefaultIsEnabled)
                               ELSE m_deviceConfigs
       /\ MgrReturns("AddDeviceConfig", Ret(validName /\ validConfig))
  /\ UNCHANGED <<envVars, namesVars, m_isInitialized, m_controllers, devConnected, devState,
                 m_devicesMutex, allSuccess, connectCalls, disconnectCalls,
                 wasConnected>>
  /\ UNCHANGED unitVars

\* PrintDeviceStatus() of the stage manager: in hardware mode it takes
\* m_devicesMutex for its loop over m_deviceConfigs; in mock mode it prints
\* the mock names and states
PrintDeviceStatus ==
  /\ mgrPc = "idle"
  /\ mgrKind # "ACS"
  /\ mgrKind = "PIhw" => m_devicesMutex = "free"
  /\ mgrDev' = 0
  /\ IF mgrKind = "PIhw"
       THEN /\ MgrGoesOn("printAll")
            /\ m_devicesMutex' = "held"
       ELSE /\ MgrReturns("PrintDeviceStatus", "void")
            /\ UNCHANGED m_devicesMutex
  /\ UNCHANGED <<envVars, namesVars, m_isInitialized, m_deviceConfigs,
                 m_controllers, devConnected, devState, allSuccess, connectCalls,
                 disconnectCalls, wasConnected>>
  /\ UNCHANGED unitVars

\* PrintDeviceStatus in hardware mode: for the first record
\* IsRealDeviceConnected(deviceName), whose GetRealDevice locks the mutex
\* this thread holds; with no record the lock is released and
\* GetConnectedDeviceCount() takes it for its count
PrintDeviceStatusLoop ==
  /\ mgrPc = "printAll"
  /\ IF DOMAIN m_deviceConfigs # {}
       THEN MgrRelocks("PrintDeviceStatus")
       ELSE /\ MgrReturns("PrintDeviceStatus", "void")
            /\ m_devicesMutex' = "free"
  /\ UNCHANGED <<envVars, namesVars, m_isInitialized, m_deviceConfigs,
                 m_controllers, devConnected, devState, allSuccess, connectCalls,
                 disconnectCalls, wasConnected, mgrDev>>
  /\ UNCHANGED unitVars

\* AddMockDevice(deviceName) of the stage manager, in either mode: a name
\* std::find does not find in m_mockDeviceNames is pushed, with false pushed
\* to m_mockConnectionStates
AddMockDevice ==
  /\ mgrPc = "idle"
  /\ mgrKind # "ACS"
  /\ \E d \in Devices :
       /\ mgrDev' = d
       /\ IF d \notin Range(m_mockDeviceNames)
            THEN /\ m_mockDeviceNames' = Append(m_mockDeviceNames, d)
                 /\ m_mockConnectionStates' =
                      Append(m_mockConnectionStates, FALSE)
            ELSE UNCHANGED <<m_mockDeviceNames, m_mockConnectionStates>>
  /\ MgrReturns("AddMockDevice", "void")
  /\ UNCHANGED <<envVars, m_deviceNames, m_isInitialized, m_deviceConfigs,
                 m_controllers, devConnected, devState, m_devicesMutex,
                 allSuccess, connectCalls, disconnectCalls, wasConnected>>
  /\ UNCHANGED unitVars

\* SetMockDeviceConnected(deviceName, connected) of the stage manager:
\* ignored in hardware mode; else m_mockConnectionStates[index] = connected
\* for a name FindMockDeviceIndex finds
SetMockDeviceConnected ==
  /\ mgrPc = "idle"
  /\ mgrKind # "ACS"
  /\ \E d \in Devices, connected \in BOOLEAN :
       /\ mgrDev' = d
       /\ m_mockConnectionStates' =
            IF mgrKind = "PImock" /\ MockIndexInRange(FindMockDeviceIndex(d))
              THEN StoreConnectionState(m_mockConnectionStates,
                                        FindMockDeviceIndex(d), connected)
              ELSE m_mockConnectionStates
  /\ MgrReturns("SetMockDeviceConnected", "void")
  /\ UNCHANGED <<envVars, m_deviceNames, m_mockDeviceNames, m_isInitialized,
                 m_deviceConfigs, m_controllers, devConnected, devState,
                 m_devicesMutex, allSuccess, connectCalls, disconnectCalls,
                 wasConnected>>
  /\ UNCHANGED unitVars

\* m_hardwareMode as the kind of the stage manager
ModeKind(hardwareMode) == IF hardwareMode THEN "PIhw" ELSE "PImock"

\* SetHardwareMode(enabled) of the stage manager: nothing when the mode is
\* the one asked for; else DisconnectAll(), then m_hardwareMode = enabled.
\* The DisconnectAll of mock mode fills m_mockConnectionStates with false;
\* that of hardware mode takes m_devicesMutex and lists m_realDevices
SetHardwareMode ==
  /\ mgrPc = "idle"
  /\ mgrKind # "ACS"
  /\ mgrDev' = 0
  /\ \E enabled \in BOOLEAN :
       IF mgrKind = ModeKind(enabled)
         THEN /\ MgrReturns("SetHardwareMode", "void")
              /\ UNCHANGED <<mgrKind, m_mockConnectionStates, m_devicesMutex>>
       ELSE IF mgrKind = "PImock"
         THEN /\ m_mockConnectionStates' =
                   FillConnectionStates(m_mockConnectionStates, 0, FALSE)
              /\ mgrKind' = ModeKind(enabled)
              /\ MgrReturns("SetHardwareMode", "void")
              /\ UNCHANGED m_devicesMutex
         ELSE /\ mgrPc' = "discAllMode"
              /\ mgrTodo' = m_controllers
              /\ mgrLastOp' = "busy"
              /\ mgrLastRet' = "none"
              /\ m_devicesMutex' = "held"
              /\ UNCHANGED <<mgrKind, m_mockConnectionStates>>
  /\ UNCHANGED <<cfgEnabled, cfgType, cfgAxes, openOk, stopOk, cfgSource>>
  /\ UNCHANGED <<m_deviceNames, m_mockDeviceNames, m_isInitialized,
                 m_deviceConfigs, m_controllers, devConnected, devState,
                 allSuccess, connectCalls, disconnectCalls, wasConnected>>
  /\ UNCHANGED unitVars

\* SetHardwareMode(false): the DisconnectAll of hardware mode has found
\* m_realDevices empty and returned; m_hardwareMode = false
SetHardwareModeEnd ==
  /\ mgrPc = "discAllMode"
  /\ mgrTodo = {}
  /\ mgrKind' = ModeKind(FALSE)
  /\ m_devicesMutex' = "free"
  /\ MgrReturns("SetHardwareMode", "void")
  /\ UNCHANGED <<cfgEnabled, cfgType, cfgAxes, openOk, stopOk, cfgSource>>
  /\ UNCHANGED <<namesVars, m_isInitialized, m_deviceConfigs, m_controllers,
                 devConnected, devState, allSuccess, connectCalls, disconnectCalls,
                 wasConnected, mgrDev>>
  /\ UNCHANGED unitVars

\* DisconnectAll(): allSuccess = true; the stage manager in hardware mode
\* takes m_devicesMutex and lists the names of m_realDevices; in mock mode it
\* fills m_mockConnectionStates with false
DisconnectAllBegin ==
  /\ mgrPc = "idle"
  /\ mgrKind = "PIhw" => m_devicesMutex = "free"
  /\ mgrPc' = "discAll"
  /\ wasConnected' = {d \in Devices : IsDeviceConnected(d)}
  /\ mgrDev' = 0
  /\ disconnectCalls' = [d \in Devices |-> 0]
  /\ mgrTodo' = IF mgrKind = "PImock" THEN {} ELSE m_controllers
  /\ m_mockConnectionStates' =
       IF mgrKind = "PImock"
         THEN FillConnectionStates(m_mockConnectionStates, 0, FALSE)
         ELSE m_mockConnectionStates
  /\ allSuccess' = TRUE
  /\ m_devicesMutex' = IF mgrKind = "PIhw" THEN "held" ELSE m_devicesMutex
  /\ mgrLastOp' = "busy"
  /\ mgrLastRet' = "none"
  /\ UNCHANGED <<envVars, m_deviceNames, m_mockDeviceNames, m_isInitialized,
                 m_deviceConfigs, m_controllers, devConnected, devState,
                 connectCalls>>
  /\ UNCHANGED unitVars

\* one pass of the loop of the gantry manager's DisconnectAll:
\* controller->Disconnect(), allSuccess = false on failure
ACS_DisconnectAllStep ==
  /\ mgrPc = "discAll"
  /\ mgrKind = "ACS"
  /\ mgrTodo # {}
  /\ LET d == NextEntry(mgrTodo)
         r == DeviceDisconnect(devConnected[d], stopOk[d])
     IN  /\ mgrTodo' = mgrTodo \ {d}
         /\ disconnectCalls' = [disconnectCalls EXCEPT ![d] = @ + 1]
         /\ devConnected' = [devConnected EXCEPT ![d] = r.conn]
         /\ devState' = [devState EXCEPT ![d] =
                           UnitAfterDisconnect(mgrKind, @, devConnected[d])]
         /\ allSuccess' = (allSuccess /\ r.ret)
  /\ UNCHANGED <<envVars, namesVars, m_isInitialized, m_deviceConfigs, m_controllers,
                 m_devicesMutex, mgrPc, mgrLastOp, mgrLastRet, connectCalls,
                 wasConnected, mgrDev>>
  /\ UNCHANGED unitVars

\* one pass of the loop of the stage manager's DisconnectAll in hardware mode:
\* DisconnectDevice(deviceName) locks m_devicesMutex, which DisconnectAll holds
PIhw_DisconnectAllStep ==
  /\ mgrPc \in {"discAll", "discAllMode"}
  /\ mgrKind = "PIhw"
  /\ mgrTodo # {}
  /\ MgrRelocks(IF mgrPc = "discAll" THEN "DisconnectAll" ELSE "SetHardwareMode")
  /\ UNCHANGED <<envVars, namesVars, m_isInitialized, m_deviceConfigs, m_controllers,
                 devConnected, devState, allSuccess, connectCalls, disconnectCalls,
                 wasConnected, mgrDev>>
  /\ UNCHANGED unitVars

\* DisconnectAll: the loop is over; the lock is released; the gantry manager
\* returns allSuccess, the stage manager returns true
DisconnectAllEnd ==
  /\ mgrPc = "discAll"
  /\ mgrTodo = {}
  /\ MgrReturns("DisconnectAll", IF mgrKind = "ACS" THEN Ret(allSuccess) ELSE "true")
  /\ m_devicesMutex' = "free"
  /\ UNCHANGED <<envVars, namesVars, m_isInitialized, m_deviceConfigs, m_controllers,
                 devConnected, devState, allSuccess, connectCalls, disconnectCalls,
                 wasConnected, mgrDev>>
  /\ UNCHANGED unitVars

-----------------------------------------------------------------------------
(* SpecMgr: a manager of either family over a configuration of NumDevices   *)
(* records, any of them disabled, unreachable or failing to stop.           *)

InitMgr ==
  /\ InitManager
  /\ InitController
  /\ callsLeft = 0
  /\ HwAtRest
  /\ family = "ACS"
  /\ hwPos["X"] = 0

NextMgr ==
  \/ Initialize
  \/ InitializeSteps
  \/ PrintDeviceStatus
  \/ PrintDeviceStatusLoop
  \/ ConnectAllBegin
  \/ ACS_ConnectAllStep
  \/ PIhw_ConnectAllStep
  \/ PImock_ConnectAllStep
  \/ ConnectAllEnd
  \/ ConnectDevice
  \/ ConnectDeviceSteps
  \/ DisconnectDevice
  \/ DestroyRealDeviceSteps
  \/ DisconnectAllBegin
  \/ ACS_DisconnectAllStep
  \/ PIhw_DisconnectAllStep
  \/ DisconnectAllEnd

SpecMgr == InitMgr /\ [][NextMgr]_vars

\* the devices the manager is to connect: the entries of m_deviceConfigs
\* whose config.isEnabled is set
EnabledDevices == {d \in DOMAIN m_deviceConfigs : m_deviceConfigs[d]}

\* C3: ConnectAll on an initialized manager ends by returning, has called
\* Connect exactly once on every enabled device, and every enabled device
\* whose session open succeeds is connected afterwards.
C3_ConnectAllVisitsEvery ==
  (m_isInitialized /\ mgrLastOp = "ConnectAll") =>
     /\ mgrPc # "hung"
     /\ mgrLastRet \in {"true", "false"}
     /\ \A d \in EnabledDevices :
          connectCalls[d] = 1 /\ (openOk[d] => IsDeviceConnected(d))

\* C4: ConnectAll on an initialized manager returns true exactly when every
\* enabled registered device is connected at its return.
C4_ConnectAllAnd ==
  (m_isInitialized /\ mgrLastOp = "ConnectAll" /\ mgrLastRet \in {"true", "false"}) =>
     (mgrLastRet = "true" <=> \A d \in EnabledDevices : IsDeviceConnected(d))

\* C5: DisconnectAll ends by returning; after it no registered device is
\* connected and Disconnect was called on every entry that was connected.
C5_DisconnectAllClears ==
  (mgrLastOp = "DisconnectAll") =>
     /\ mgrPc # "hung"
     /\ mgrLastRet \in {"true", "false"}
     /\ \A d \in Devices : ~IsDeviceConnected(d)
     /\ \A d \in wasConnected \cap m_controllers : disconnectCalls[d] >= 1

-----------------------------------------------------------------------------
(* SpecCfg: a manager of either family is constructed over a configuration  *)
(* whose records are of either family, enabled or not, the first with any   *)
(* installAxes string of up to MaxAxesLen characters; then Initialize,      *)
(* ConnectDevice and DisconnectDevice are called in any order.              *)

\* the characters of installAxes strings
AxisChars == {"X", "Y", " "}

\* the installAxes strings of up to MaxAxesLen characters
AxisStrings == UNION {[1..n -> AxisChars] : n \in 0..MaxAxesLen}

InitCfg ==
  /\ cfgSource = "ok"
  /\ mgrKind \in {"ACS", "PIhw", "PImock"}
  /\ cfgEnabled \in [Devices -> BOOLEAN]
  /\ cfgType \in [Devices -> Families]
  /\ \E str \in AxisStrings :
       cfgAxes = [d \in Devices |-> IF d = 1 THEN str ELSE UsualAxes(cfgType[d])]
  /\ openOk = [d \in Devices |-> TRUE]
  /\ stopOk = [d \in Devices |-> TRUE]
  /\ ManagerConstructed
  /\ InitController
  /\ callsLeft = 0
  /\ HwAtRest
  /\ family = "ACS"
  /\ hwPos["X"] = 0

NextCfg ==
  \/ Initialize
  \/ InitializeSteps
  \/ ConnectDevice
  \/ ConnectDeviceSteps
  \/ DisconnectDevice
  \/ DestroyRealDeviceSteps

SpecCfg == InitCfg /\ [][NextCfg]_vars

\* the records the manager is to expose: its family's, enabled
WantedDevices ==
  {d \in Devices : cfgType[d] = KindFamily(mgrKind) /\ cfgEnabled[d]}

\* C18: after the constructor's LoadDevicesFromConfig, and after Initialize,
\* GetDeviceNames() is exactly the set of records of the manager's family
\* that are enabled.
C18_NamesAreEnabledOfFamily == GetDeviceNames = WantedDevices

\* the identifiers an installAxes string lists, in order: its maximal runs of
\* characters other than the blank
TokenStarts(str) ==
  {i \in 1..Len(str) : str[i] # " " /\ (i = 1 \/ str[i - 1] = " ")}
TokenEnd(str, i) ==
  CHOOSE j \in i..Len(str) :
    /\ \A k \in i..j : str[k] # " "
    /\ (j = Len(str) \/ str[j + 1] = " ")
InstalledAxesList(str) ==
  [k \in 1..Cardinality(TokenStarts(str)) |->
     LET i == CHOOSE t \in TokenStarts(str) :
                Cardinality({u \in TokenStarts(str) : u < t}) = k - 1
     IN  SubSeq(str, i, TokenEnd(str, i))]

\* C19: the available-axis list of every controller a manager has
\* constructed is the axis list of its configuration record, in order.
C19_ControllerAxesAreInstalled ==
  \A d \in m_controllers :
     ControllerAxes(mgrKind, d, cfgAxes) = InstalledAxesList(cfgAxes[d])

\* C12: on an initialized manager, DisconnectDevice(name) for a configured
\* name whose hardware reports no error returns true, and the device is not
\* connected afterwards, whether or not it was connected before.
C12_DisconnectDeviceIdempotent ==
  (mgrLastOp = "DisconnectDevice" /\ m_isInitialized
     /\ mgrDev \in EnabledDevices /\ stopOk[mgrDev]) =>
     /\ mgrPc # "hung"
     /\ mgrLastRet = "true"
     /\ ~IsDeviceConnected(mgrDev)

-----------------------------------------------------------------------------
(* The stage manager's registry under several calling threads (SpecReg),   *)
(* while one more thread calls Initialize on the constructed manager.       *)
(* The manager is in hardware mode.  m_devicesMutex is a lock_guard inside   *)
(* GetRealDevice, GetMutableDeviceConfig, DisconnectDevice,                  *)
(* RemoveDeviceConfig and the store of CreateRealDevice: what runs under it  *)
(* is one step, and what a thread does with a pointer after the guard has   *)
(* been released is a step of its own.                                       *)

\* every variable the registry operations leave alone
regRest == <<appVars, queueVars, raceVars, stopVars, envVars, m_isInitialized, namesVars, mgrPc, mgrTodo,
             allSuccess, mgrLastOp, mgrLastRet, connectCalls, disconnectCalls,
             wasConnected, mgrDev, selfVars, connVars, thrVars, cacheVars,
             pollVars, hwVars, callVars, waitVars, retVars, obsVars>>

\* the controller objects some map entry owns
OwnedObjects == {m_realDevices[d] : d \in Devices} \ {0}

\* the threads that are inside CreateRealDevice with a controller of their own
Creating == {t \in Threads : thrPc[t] \in {"cdConnect", "cdStore"}}

\* the object std::make_unique<PIController>() yields next
NewObject == Cardinality(destroyed) + Cardinality(OwnedObjects) + 1

\* a controller pointer is dereferenced: the object behind it may be gone
DerefDevice(t) ==
  usedAfterFree' = (usedAfterFree \/ (thrPtr[t] # 0 /\ thrPtr[t] \in destroyed))

\* a PIDeviceConfig* is dereferenced: the map node behind it may have been
\* erased, whatever m_deviceConfigs holds under its name by now
DerefConfig(t) ==
  usedAfterFree' = (usedAfterFree \/ thrCfg[t] = "freed")

\* GetRealDevice: the lookup under the lock, the raw pointer out of it
GetRealDevice(t, d, pc) ==
  /\ m_devicesMutex = "free"
  /\ thrPc' = [thrPc EXCEPT ![t] = pc]
  /\ thrDev' = [thrDev EXCEPT ![t] = d]
  /\ thrPtr' = [thrPtr EXCEPT ![t] = m_realDevices[d]]
  /\ UNCHANGED <<thrCfg, m_realDevices, destroyed, usedAfterFree, m_deviceConfigs,
                 m_controllers, devConnected, devState, m_devicesMutex, regRest>>

\* a thread's operation returns
ThreadReturns(t) ==
  /\ thrPc' = [thrPc EXCEPT ![t] = "idle"]
  /\ thrDev' = [thrDev EXCEPT ![t] = 0]
  /\ thrPtr' = [thrPtr EXCEPT ![t] = 0]
  /\ thrCfg' = [thrCfg EXCEPT ![t] = "none"]

\* GetDevice(name): the caller keeps the pointer it is handed
GetDevice ==
  \E t \in Threads, d \in Devices :
    /\ thrPc[t] = "idle"
    /\ GetRealDevice(t, d, "holding")

\* the caller calls a member of the controller it was handed, if any
UseHandle ==
  \E t \in Threads :
    /\ thrPc[t] = "holding"
    /\ DerefDevice(t)
    /\ ThreadReturns(t)
    /\ UNCHANGED <<m_realDevices, destroyed, m_deviceConfigs, m_controllers,
                   devConnected, devState, m_devicesMutex, regRest>>

\* IsDeviceConnected(name): GetRealDevice, ...
IsRealDeviceConnected ==
  \E t \in Threads, d \in Devices :
    /\ thrPc[t] = "idle"
    /\ GetRealDevice(t, d, "icUse")

\* ... then device && device->IsConnected() with the lock released
IsRealDeviceConnectedRead ==
  \E t \in Threads :
    /\ thrPc[t] = "icUse"
    /\ DerefDevice(t)
    /\ ThreadReturns(t)
    /\ UNCHANGED <<m_realDevices, destroyed, m_deviceConfigs, m_controllers,
                   devConnected, devState, m_devicesMutex, regRest>>

\* ConnectDevice(name): first IsRealDeviceConnected's lookup
RegConnectDevice ==
  \E t \in Threads, d \in Devices :
    /\ thrPc[t] = "idle"
    /\ NewObject + Cardinality(Creating) <= MaxObjects
    /\ GetRealDevice(t, d, "cdUse")

\* ConnectDevice: device->IsConnected() decides between "already connected"
\* and CreateRealDevice; read from a destroyed object it may say either
RegConnectDeviceRead ==
  \E t \in Threads, connected \in BOOLEAN :
    /\ thrPc[t] = "cdUse"
    /\ DerefDevice(t)
    /\ thrPtr[t] = 0 => ~connected
    /\ (thrPtr[t] # 0 /\ thrPtr[t] \notin destroyed)
          => (connected <=> devConnected[thrDev[t]])
    /\ IF connected
         THEN ThreadReturns(t)
         ELSE /\ thrPc' = [thrPc EXCEPT ![t] = "cdCfg"]
              /\ thrPtr' = [thrPtr EXCEPT ![t] = 0]
              /\ UNCHANGED <<thrDev, thrCfg>>
    /\ UNCHANGED <<m_realDevices, destroyed, m_deviceConfigs, m_controllers,
                   devConnected, devState, m_devicesMutex, regRest>>

\* CreateRealDevice: GetMutableDeviceConfig, the record's address out of the
\* lock
GetMutableDeviceConfig ==
  \E t \in Threads :
    /\ thrPc[t] = "cdCfg"
    /\ m_devicesMutex = "free"
    /\ IF thrDev[t] \in DOMAIN m_deviceConfigs
         THEN /\ thrPc' = [thrPc EXCEPT ![t] = "cdConnect"]
              /\ thrCfg' = [thrCfg EXCEPT ![t] = "live"]
              /\ UNCHANGED <<thrDev, thrPtr>>
         ELSE ThreadReturns(t)
    /\ UNCHANGED <<m_realDevices, destroyed, usedAfterFree, m_deviceConfigs,
                   m_controllers, devConnected, devState, m_devicesMutex, regRest>>

\* CreateRealDevice: the controller is made, configured from *config and
\* connected to config->ipAddress
CreateRealDeviceConnect ==
  \E t \in Threads :
    /\ thrPc[t] = "cdConnect"
    /\ DerefConfig(t)
    /\ IF openOk[thrDev[t]]
         THEN /\ thrPc' = [thrPc EXCEPT ![t] = "cdStore"]
              /\ UNCHANGED <<thrDev, thrPtr, thrCfg>>
         ELSE ThreadReturns(t)
    /\ UNCHANGED <<m_realDevices, destroyed, m_deviceConfigs, m_controllers,
                   devConnected, devState, m_devicesMutex, regRest>>

\* CreateRealDevice: under the lock the controller is moved into the map,
\* which destroys the one the entry owned, and config->isConnected is set
CreateRealDeviceStore ==
  \E t \in Threads :
    /\ thrPc[t] = "cdStore"
    /\ m_devicesMutex = "free"
    /\ m_realDevices' = [m_realDevices EXCEPT ![thrDev[t]] = NewObject]
    /\ destroyed' = destroyed \cup ({m_realDevices[thrDev[t]]} \ {0})
    /\ m_controllers' = m_controllers \cup {thrDev[t]}
    /\ devConnected' = [devConnected EXCEPT ![thrDev[t]] = TRUE]
    /\ devState' = [devState EXCEPT ![thrDev[t]] =
                      UnitAfterConnect(UnitConstructed, FALSE, TRUE, TRUE)]
    /\ DerefConfig(t)
    /\ ThreadReturns(t)
    /\ UNCHANGED <<m_deviceConfigs, m_devicesMutex, regRest>>

\* DestroyRealDevice is entered with the lock held
DestroyRealDevice(t, d) ==
  /\ thrPc' = [thrPc EXCEPT ![t] = "ddStop"]
  /\ thrDev' = [thrDev EXCEPT ![t] = d]
  /\ m_devicesMutex' = "held"
  /\ UNCHANGED <<thrPtr, thrCfg, m_realDevices, destroyed, m_controllers, devConnected, devState>>

\* DestroyRealDevice: it->second->StopAllAxes(); the controller stays
\* connected and in m_realDevices
DestroyRealDeviceStop ==
  \E t \in Threads :
    /\ thrPc[t] = "ddStop"
    /\ thrPc' = [thrPc EXCEPT ![t] = "ddDisconnect"]
    /\ UNCHANGED <<thrDev, thrPtr, thrCfg, m_realDevices, destroyed, usedAfterFree,
                   m_deviceConfigs, m_controllers, devConnected, devState, m_devicesMutex,
                   regRest>>

\* DestroyRealDevice: sleep_for(50 ms), then it->second->Disconnect()
DestroyRealDeviceDisconnect ==
  \E t \in Threads :
    /\ thrPc[t] = "ddDisconnect"
    /\ thrPc' = [thrPc EXCEPT ![t] = "ddErase"]
    /\ devConnected' = [devConnected EXCEPT ![thrDev[t]] = FALSE]
    /\ devState' = [devState EXCEPT ![thrDev[t]] =
                      UnitAfterDisconnect(mgrKind, @, devConnected[thrDev[t]])]
    /\ UNCHANGED <<thrDev, thrPtr, thrCfg, m_realDevices, destroyed, usedAfterFree,
                   m_deviceConfigs, m_controllers, m_devicesMutex, regRest>>

\* DestroyRealDevice: the entry is erased and its controller destroyed, then
\* GetMutableDeviceConfig locks the mutex again
DestroyRealDeviceErase ==
  \E t \in Threads, o \in RelockOutcomes :
    /\ thrPc[t] = "ddErase"
    /\ m_realDevices' = [m_realDevices EXCEPT ![thrDev[t]] = 0]
    /\ destroyed' = destroyed \cup {m_realDevices[thrDev[t]]}
    /\ m_controllers' = m_controllers \ {thrDev[t]}
    /\ devState' = [devState EXCEPT ![thrDev[t]] = UnitNone]
    /\ IF o = "hung"
         THEN /\ thrPc' = [thrPc EXCEPT ![t] = "hung"]
              /\ UNCHANGED <<thrDev, thrPtr, thrCfg, m_devicesMutex>>
         ELSE /\ ThreadReturns(t)
              /\ m_devicesMutex' = "free"
    /\ UNCHANGED <<usedAfterFree, m_deviceConfigs, devConnected, regRest>>

\* DisconnectDevice(name)
RegDisconnectDevice ==
  \E t \in Threads, d \in Devices :
    /\ thrPc[t] = "idle"
    /\ m_devicesMutex = "free"
    /\ IF m_realDevices[d] # 0
         THEN DestroyRealDevice(t, d)
         ELSE UNCHANGED <<regVars, m_controllers, devConnected, devState, m_devicesMutex>>
    /\ UNCHANGED <<usedAfterFree, m_deviceConfigs, regRest>>

\* RemoveDeviceConfig(name): the controller first, if there is one, then the
\* record
RemoveDeviceConfig ==
  \E t \in Threads, d \in Devices :
    /\ thrPc[t] = "idle"
    /\ m_devicesMutex = "free"
    /\ IF m_realDevices[d] # 0
         THEN /\ DestroyRealDevice(t, d)
              /\ UNCHANGED m_deviceConfigs
         ELSE /\ m_deviceConfigs' = EraseConfig(m_deviceConfigs, d)
              /\ thrCfg' = FreedConfigs({d})
              /\ UNCHANGED <<m_realDevices, destroyed, thrPc, thrDev, thrPtr,
                             m_controllers, devConnected, devState,
                             m_devicesMutex>>
    /\ UNCHANGED <<usedAfterFree, regRest>>

\* the devices whose session open succeeds: all, or all but the second
RegOpenOk == {[d \in Devices |-> TRUE], [d \in Devices |-> d # 2]}

\* a freshly constructed hardware-mode manager whose records are all of
\* its family
InitReg ==
  /\ cfgSource = "ok"
  /\ mgrKind = "PIhw"
  /\ cfgEnabled = [d \in Devices |-> TRUE]
  /\ cfgType = [d \in Devices |-> "PI"]
  /\ cfgAxes = [d \in Devices |-> UsualAxes("PI")]
  /\ openOk \in RegOpenOk
  /\ stopOk = [d \in Devices |-> TRUE]
  /\ ManagerConstructed
  /\ InitController
  /\ callsLeft = 0
  /\ HwAtRest
  /\ family = "PI"
  /\ hwPos["X"] = 0

NextReg ==
  \/ GetDevice
  \/ UseHandle
  \/ IsRealDeviceConnected
  \/ IsRealDeviceConnectedRead
  \/ RegConnectDevice
  \/ RegConnectDeviceRead
  \/ GetMutableDeviceConfig
  \/ CreateRealDeviceConnect
  \/ CreateRealDeviceStore
  \/ RegDisconnectDevice
  \/ RemoveDeviceConfig
  \/ DestroyRealDeviceStop
  \/ DestroyRealDeviceDisconnect
  \/ DestroyRealDeviceErase
  \/ Initialize
  \/ InitializeSteps

SpecReg == InitReg /\ [][NextReg]_vars

\* C20: whatever the interleaving of lookups and removals on one manager, no
\* thread dereferences a controller that has been destroyed or a
\* configuration record that has been erased.
C20_NoUseAfterErase == ~usedAfterFree

-----------------------------------------------------------------------------
(* Stopping the poll loop and destroying a controller (SpecStop).  The wait  *)
(* of the poll loop and StopCommunicationThread are followed step by step,  *)
(* with m_mutex and the condition variable: the loop locks m_mutex, tests    *)
(* the predicate and only then blocks, releasing the mutex as it does.       *)

\* the predicate of m_condVar.wait_for: [this]{ return m_terminateThread.load(); }
WaitPredicate(terminate) == terminate

\* a stop request that stores the flag without taking m_mutex
StoreWithoutLock(f) == FALSE

\* StopCommunicationThread stores m_terminateThread under lock_guard(m_mutex)
StoreUnderLock(f) == TRUE

\* both destructors call StopCommunicationThread() before anything else
DestructorStopsThread(f) == TRUE

\* the flag is set and notify_all has been issued
StopRequested == m_terminateThread /\ callerPc # "stopNotify"

\* the part of a poll cycle before its wait; the steps that read or write
\* the cache take m_mutex for the duration of the step
PollCycle ==
  \/ PollPrologue
  \/ PollTop
  \/ PollPositionsCall
  \/ PI_PollMovingCall
  \/ PollPositionsWrite
  \/ PI_PollMovingWrite
  \/ PI_PollServo
  \/ ACS_PollStatus

\* std::unique_lock<std::mutex> lock(m_mutex); the gantry loop with no sleep
\* time left unlocks and yields, else wait_for tests its predicate first
PollWaitLock ==
  /\ pollPc = "sleep"
  /\ m_mutex = "free"
  /\ \E behind \in {b \in BOOLEAN : b => family = "ACS"} :
       IF behind
         THEN /\ pollPc' = "top"
              /\ UNCHANGED m_mutex
         ELSE /\ m_mutex' = "poll"
              /\ pollPc' = IF WaitPredicate(m_terminateThread)
                             THEN "waitDone" ELSE "waitBlock"
  /\ UNCHANGED <<alive, sleptAfterStop, frameCounter, pollPositions, pollMoving, pollAxis, pollFlag>>
  /\ UNCHANGED <<appVars, queueVars, raceVars, selfVars, regVars, mgrVars, connVars, thrVars, cacheVars,
                 hwVars, callVars, waitVars, retVars, obsVars>>

\* wait_for blocks: the mutex is released and the thread waits, in one step
PollWaitBlock ==
  /\ pollPc = "waitBlock"
  /\ m_mutex' = "free"
  /\ pollPc' = "waiting"
  /\ UNCHANGED <<alive, sleptAfterStop, frameCounter, pollPositions, pollMoving, pollAxis, pollFlag>>
  /\ UNCHANGED <<appVars, queueVars, raceVars, selfVars, regVars, mgrVars, connVars, thrVars, cacheVars,
                 hwVars, callVars, waitVars, retVars, obsVars>>

\* wait_for returned without blocking; the lock goes at the end of the
\* iteration
PollWaitDone ==
  /\ pollPc = "waitDone"
  /\ m_mutex' = "free"
  /\ pollPc' = "top"
  /\ UNCHANGED <<alive, sleptAfterStop, frameCounter, pollPositions, pollMoving, pollAxis, pollFlag>>
  /\ UNCHANGED <<appVars, queueVars, raceVars, selfVars, regVars, mgrVars, connVars, thrVars, cacheVars,
                 hwVars, callVars, waitVars, retVars, obsVars>>

\* the interval of the wait has passed
PollWaitTimeout ==
  /\ pollPc = "waiting"
  /\ pollPc' = "wakeTimeout"
  /\ sleptAfterStop' = (sleptAfterStop \/ StopRequested)
  /\ statusAge' = Aged(statusAge, UpdateIntervalMs(family))
  /\ UNCHANGED <<m_mutex, alive, frameCounter, pollPositions, pollMoving, pollAxis, pollFlag>>
  /\ UNCHANGED <<m_axisPositions, m_axisMoving, m_axisServoEnabled>>
  /\ UNCHANGED <<appVars, queueVars, raceVars, selfVars, regVars, mgrVars, connVars, thrVars, hwVars,
                 callVars, waitVars, retVars, obsVars>>

\* the woken thread takes m_mutex again: after the timeout wait_for returns,
\* after a notification it returns if the predicate holds and blocks again
\* if not; the lock goes at the end of the iteration
PollWake ==
  /\ pollPc \in {"wakeTimeout", "wakeNotified"}
  /\ m_mutex = "free"
  /\ pollPc' = IF pollPc = "wakeTimeout" \/ WaitPredicate(m_terminateThread)
                 THEN "top" ELSE "waiting"
  /\ UNCHANGED <<stopVars, frameCounter, pollPositions, pollMoving, pollAxis, pollFlag>>
  /\ UNCHANGED <<appVars, queueVars, raceVars, selfVars, regVars, mgrVars, connVars, thrVars, cacheVars,
                 hwVars, callVars, waitVars, retVars, obsVars>>

\* the communication thread with its wait spelled out
PollThread ==
  \/ PollCycle
  \/ PollWaitLock
  \/ PollWaitBlock
  \/ PollWaitDone
  \/ PollWaitTimeout
  \/ PollWake

\* StopCommunicationThread: std::lock_guard<std::mutex> lock(m_mutex)
StopLock ==
  /\ callerPc = "stopLock"
  /\ IF StoreUnderLock(family)
       THEN /\ m_mutex = "free"
            /\ m_mutex' = "caller"
       ELSE UNCHANGED m_mutex
  /\ callerPc' = "stopStore"
  /\ UNCHANGED <<callAxis, callBlocking, callOp, callTarget, callPositions,
                 callSuccess>>
  /\ UNCHANGED <<alive, sleptAfterStop>>
  /\ UNCHANGED <<appVars, queueVars, raceVars, selfVars, regVars, mgrVars, connVars, thrVars, cacheVars,
                 pollVars, hwVars, waitVars, retVars, obsVars>>

\* StopCommunicationThread: m_terminateThread.store(true); end of the lock's
\* scope
StopStore ==
  /\ callerPc = "stopStore"
  /\ m_terminateThread' = TRUE
  /\ m_mutex' = IF m_mutex = "caller" THEN "free" ELSE m_mutex
  /\ callerPc' = "stopNotify"
  /\ UNCHANGED <<callAxis, callBlocking, callOp, callTarget, callPositions,
                 callSuccess>>
  /\ UNCHANGED <<m_threadRunning, alive, sleptAfterStop>>
  /\ UNCHANGED <<appVars, queueVars, raceVars, selfVars, regVars, mgrVars, connVars, cacheVars, pollVars,
                 hwVars, waitVars, retVars, obsVars>>

\* StopCommunicationThread: m_condVar.notify_all() wakes the thread if it is
\* blocked in its wait
StopNotify ==
  /\ callerPc = "stopNotify"
  /\ pollPc' = IF pollPc = "waiting" THEN "wakeNotified" ELSE pollPc
  /\ callerPc' = "stopJoin"
  /\ UNCHANGED <<callAxis, callBlocking, callOp, callTarget, callPositions,
                 callSuccess>>
  /\ UNCHANGED <<frameCounter, pollPositions, pollMoving, pollAxis, pollFlag>>
  /\ UNCHANGED <<appVars, queueVars, raceVars, selfVars, regVars, stopVars, mgrVars, connVars, thrVars,
                 cacheVars, hwVars, waitVars, retVars, obsVars>>

\* StopCommunicationThread: m_communicationThread.join();
\* m_threadRunning.store(false); back in Disconnect or in the destructor
StopJoin ==
  /\ callerPc = "stopJoin"
  /\ pollPc = "exited"
  /\ m_threadRunning' = FALSE
  /\ callerPc' = IF callOp = "Disconnect" THEN "discStop" ELSE "dtorCheck"
  /\ UNCHANGED <<callAxis, callBlocking, callOp, callTarget, callPositions,
                 callSuccess>>
  /\ UNCHANGED m_terminateThread
  /\ UNCHANGED <<appVars, queueVars, raceVars, selfVars, regVars, stopVars, mgrVars, connVars, cacheVars,
                 pollVars, hwVars, waitVars, retVars, obsVars>>

\* Disconnect(): as the action Disconnect, with StopCommunicationThread
\* entered at its lock
DisconnectCalled ==
  /\ callerPc = "idle"
  /\ alive \in {"alive", "erasing", "destroying"}
  /\ alive = "destroying" => callOp = "~Controller"
  /\ alive = "erasing" => callOp = "DestroyRealDevice"
  /\ alive = "alive" => callOp = "none"
  /\ Called("Disconnect", "", <<>>)
  /\ IF ~m_isConnected
       THEN /\ Returns("Disconnect", "", FALSE, DisconnectRet(family, TRUE))
            /\ ToIdle
       ELSE /\ Busy
            /\ callOp' = "Disconnect"
            /\ callSuccess' = TRUE
            /\ UNCHANGED <<callAxis, callBlocking, callTarget, callPositions>>
            /\ callerPc' = IF DisconnectStopsThread(family) /\ m_threadRunning
                             THEN "stopLock" ELSE "discStop"
  /\ moveFresh' = "none"
  /\ UNCHANGED <<pollCallOnClosed, closedWhileAlive>>
  /\ UNCHANGED <<appVars, queueVars, raceVars, selfVars, regVars, stopVars, mgrVars, connVars, thrVars,
                 cacheVars, pollVars, hwVars, waitVars>>

\* ~PIController / ~ACSController: StopCommunicationThread(), which does
\* nothing when m_threadRunning is false
Destructor ==
  /\ callerPc = "idle"
  /\ alive = "alive"
  /\ alive' = "destroying"
  /\ Called("other", "", <<>>)
  /\ Busy
  /\ callerPc' = IF DestructorStopsThread(family) /\ m_threadRunning
                   THEN "stopLock" ELSE "dtorCheck"
  /\ callOp' = "~Controller"
  /\ UNCHANGED <<callAxis, callBlocking, callTarget, callPositions, callSuccess>>
  /\ moveFresh' = "none"
  /\ UNCHANGED <<pollCallOnClosed, closedWhileAlive>>
  /\ UNCHANGED <<m_mutex, sleptAfterStop>>
  /\ UNCHANGED <<appVars, queueVars, raceVars, selfVars, regVars, mgrVars, connVars, thrVars, cacheVars,
                 pollVars, hwVars, waitVars>>

\* the destructor: if (m_isConnected) Disconnect(); then the object is gone
DestructorCheck ==
  /\ callerPc = "dtorCheck"
  /\ IF m_isConnected
       THEN /\ callerPc' = "idle"
            /\ UNCHANGED alive
       ELSE /\ callerPc' = "gone"
            /\ alive' = "destroyed"
  /\ UNCHANGED <<callAxis, callBlocking, callOp, callTarget, callPositions,
                 callSuccess>>
  /\ UNCHANGED <<m_mutex, sleptAfterStop>>
  /\ UNCHANGED <<appVars, queueVars, raceVars, selfVars, regVars, mgrVars, connVars, thrVars, cacheVars,
                 pollVars, hwVars, waitVars, retVars, obsVars>>

\* the destructor's Disconnect has returned: the object is gone
DestructorEnd ==
  /\ callerPc = "idle"
  /\ alive = "destroying"
  /\ callOp = "none"
  /\ callerPc' = "gone"
  /\ alive' = "destroyed"
  /\ UNCHANGED <<callAxis, callBlocking, callOp, callTarget, callPositions,
                 callSuccess>>
  /\ UNCHANGED <<m_mutex, sleptAfterStop>>
  /\ UNCHANGED <<appVars, queueVars, raceVars, selfVars, regVars, mgrVars, connVars, thrVars, cacheVars,
                 pollVars, hwVars, waitVars, retVars, obsVars>>

\* PIControllerManagerStandardized::DestroyRealDevice on the registry entry
\* that owns this controller: it->second->StopAllAxes() (if (!m_isConnected)
\* return false; PI_STP), sleep_for(50 ms); it->second->Disconnect() is next
DestroyEntryStop ==
  /\ callerPc = "idle"
  /\ alive = "alive"
  /\ family = "PI"
  /\ alive' = "erasing"
  /\ \E ok \in BOOLEAN :
       /\ CanSucceed(ok)
       /\ Called("other", "", IF m_isConnected
                                THEN <<[call |-> "stop", ok |-> ok]>> ELSE <<>>)
       /\ hwMotion' = IF m_isConnected /\ ok
                        THEN [a \in DOMAIN hwMotion |-> "idle"] ELSE hwMotion
       /\ Returns("StopAllAxes", "", FALSE, Ret(m_isConnected /\ ok))
  /\ statusAge' = Aged(statusAge, 50)
  /\ callOp' = "DestroyRealDevice"
  /\ UNCHANGED <<callerPc, callAxis, callBlocking, callTarget, callPositions,
                 callSuccess>>
  /\ moveFresh' = "none"
  /\ UNCHANGED <<pollCallOnClosed, closedWhileAlive>>
  /\ UNCHANGED <<hwPos, hwTarget, hwServo>>
  /\ UNCHANGED <<m_axisPositions, m_axisMoving, m_axisServoEnabled>>
  /\ UNCHANGED <<m_mutex, sleptAfterStop>>
  /\ UNCHANGED <<appVars, queueVars, raceVars, selfVars, regVars, mgrVars, connVars,
                 thrVars, pollVars, waitVars>>

\* DestroyRealDevice after Disconnect has returned: m_realDevices.erase(it)
\* destroys the controller, whose destructor begins with
\* StopCommunicationThread().  The gantry manager erases no entry: its
\* controllers go with the manager, through Destructor.
DestroyEntryErase ==
  /\ callerPc = "idle"
  /\ alive = "erasing"
  /\ callOp = "none"
  /\ alive' = "destroying"
  /\ Busy
  /\ callerPc' = IF DestructorStopsThread(family) /\ m_threadRunning
                   THEN "stopLock" ELSE "dtorCheck"
  /\ callOp' = "~Controller"
  /\ UNCHANGED <<callAxis, callBlocking, callTarget, callPositions, callSuccess>>
  /\ UNCHANGED <<m_mutex, sleptAfterStop>>
  /\ UNCHANGED <<appVars, queueVars, raceVars, selfVars, regVars, mgrVars, connVars,
                 thrVars, cacheVars, pollVars, hwVars, waitVars, obsVars>>

\* the steps of Connect and Disconnect that write the cache take m_mutex; the
\* drive takes the enable commands of Connect
CallerSteps ==
  \/ (alive = "alive" /\ Connect)
  \/ (m_mutex = "free" /\ PI_ConnectInitMaps)
  \/ (ACS_ConnectEnable /\ EnableAccepted)
  \/ ConnectSeedCall
  \/ (m_mutex = "free" /\ ConnectSeedWrite)
  \/ DisconnectCalled
  \/ DisconnectStopAxes
  \/ DisconnectClose
  \/ DisconnectFlag

InitStop == InitLife

NextStop ==
  \/ PollThread
  \/ CallerSteps
  \/ StopLock
  \/ StopStore
  \/ StopNotify
  \/ StopJoin
  \/ Destructor
  \/ DestructorCheck
  \/ DestructorEnd
  \/ DestroyEntryStop
  \/ DestroyEntryErase

SpecStop == InitStop /\ [][NextStop]_vars

\* the steps of the poll thread that take m_mutex
PollNeedsMutex ==
  \/ pollPc \in {"posWrite", "stWrite", "svStore", "svWrite", "amStore",
                 "amWrite", "asWrite", "sleep", "wakeTimeout", "wakeNotified"}
  \/ (/\ pollPc \in {"svCheck", "amCheck"}
      /\ m_isConnected
      /\ statusAge < m_statusUpdateInterval)

\* the poll thread has a step to take: it has not exited and is not held up
\* at m_mutex; a thread blocked in its wait has its timeout to come
PollCanStep == pollPc # "exited" /\ (PollNeedsMutex => m_mutex = "free")

\* a step of the poll thread
PollStepTaken == <<pollPc, pollAxis>>' # <<pollPc, pollAxis>> /\ UNCHANGED callerPc

\* weak fairness of the poll thread, with its enabling condition written out
PollFair == []<>(~PollCanStep) \/ []<><<PollStepTaken>>_vars

\* the poll thread is scheduled and its timeouts expire; a join that can
\* return does
SpecStopLive == SpecStop /\ PollFair /\ WF_vars(StopJoin)

\* C21: once the stop request is made (flag set, condition variable
\* notified) the poll loop never waits out its sleep interval, and the join
\* of the stopping thread returns with the loop exited.
C21_StopIsPromptAndJoins ==
  /\ [](~sleptAfterStop)
  /\ (callerPc = "stopJoin") ~> (pollPc = "exited" /\ ~m_threadRunning)

\* the stop request found the loop blocked in its wait and woke it
C21_Witness == callerPc = "stopJoin" /\ pollPc = "wakeNotified"

C23_InitializeKeepsConnections ==
  /\ [](mgrLastOp = "Initialize" => mgrLastRet = "true")
  /\ [][(Initialize \/ InitializeSteps \/ InitializeDefaults) =>
          \A d \in Devices : IsDeviceConnected(d)' = IsDeviceConnected(d)]_vars

-----------------------------------------------------------------------------
(* Initialize() against a configuration source that changes (SpecReload).   *)

\* the configuration source is edited: a record's isEnabled is flipped; the
\* next Config::Motion::GetAllDevices() returns the new records.  No manager
\* operation has ended since.
EditConfiguration ==
  /\ mgrPc = "idle"
  /\ \E d \in Devices : cfgEnabled' = [cfgEnabled EXCEPT ![d] = ~cfgEnabled[d]]
  /\ mgrLastOp' = "none"
  /\ UNCHANGED <<mgrKind, cfgType, cfgAxes, openOk, stopOk, cfgSource>>
  /\ UNCHANGED <<m_isInitialized, m_deviceConfigs, namesVars, m_controllers,
                 devConnected, devState, m_devicesMutex, mgrPc, mgrTodo, allSuccess,
                 mgrLastRet, connectCalls, disconnectCalls,
                 wasConnected, mgrDev>>
  /\ UNCHANGED unitVars

InitReload == InitMgr

NextReload == Initialize \/ InitializeSteps \/ EditConfiguration

SpecReload == InitReload /\ [][NextReload]_vars

\* C24: after every call of Initialize, first or repeated, the names the
\* manager lists are the records of its family that the configuration
\* source has enabled at that time.
C24_InitializeReloads ==
  mgrLastOp = "Initialize" => GetDeviceNames = WantedDevices

-----------------------------------------------------------------------------
(* SpecMock: a manager of either family over records of either family; the  *)
(* stage manager is switched between hardware and mock mode, its mock       *)
(* devices are added and set, its records removed, and devices are          *)
(* connected and disconnected by name and all at once.                      *)

\* the isEnabled flags of the records: all set, or all but the second's
MockEnabled == {[d \in Devices |-> TRUE], [d \in Devices |-> d # 2]}

\* the typeController of the records: the stage family but for the last, or
\* the gantry family but for the first
MockTypes == {[d \in Devices |-> IF d = NumDevices THEN "ACS" ELSE "PI"],
              [d \in Devices |-> IF d = 1 THEN "PI" ELSE "ACS"]}

InitMock ==
  /\ cfgSource = "ok"
  /\ mgrKind \in {"ACS", "PIhw", "PImock"}
  /\ cfgEnabled \in MockEnabled
  /\ cfgType \in MockTypes
  /\ cfgAxes = [d \in Devices |-> UsualAxes(cfgType[d])]
  /\ openOk = [d \in Devices |-> TRUE]
  /\ stopOk = [d \in Devices |-> TRUE]
  /\ ManagerConstructed
  /\ InitController
  /\ callsLeft = 0
  /\ HwAtRest
  /\ family = "ACS"
  /\ hwPos["X"] = 0

NextMock ==
  \/ Initialize
  \/ InitializeSteps
  \/ ConnectAllBegin
  \/ ACS_ConnectAllStep
  \/ PIhw_ConnectAllStep
  \/ PImock_ConnectAllStep
  \/ ConnectAllEnd
  \/ ConnectDevice
  \/ ConnectDeviceSteps
  \/ DisconnectDevice
  \/ DestroyRealDeviceSteps
  \/ MgrRemoveDeviceConfig
  \/ AddDeviceConfig
  \/ AddMockDevice
  \/ SetMockDeviceConnected
  \/ SetHardwareMode
  \/ PIhw_DisconnectAllStep
  \/ SetHardwareModeEnd

SpecMock == InitMock /\ [][NextMock]_vars

-----------------------------------------------------------------------------
(* Names the manager does not hold, and the devices a call does not name.   *)

\* a step of ConnectDevice(name) or DisconnectDevice(name)
ByNameStep ==
  \/ ConnectDevice
  \/ ConnectDeviceSteps
  \/ DisconnectDevice
  \/ (mgrPc \in {"ddStop", "ddDisconnect", "ddErase"} /\ DestroyRealDeviceSteps)

\* GetDevice(deviceName) of a manager: the controller registered under the
\* name (m_controllers.find, GetRealDevice), 0 for nullptr; the stage manager
\* in mock mode has no controllers
ManagerGetDevice(d) ==
  IF mgrKind # "PImock" /\ d \in m_controllers THEN d ELSE 0

\* C25: for a name the manager does not list, ConnectDevice and
\* DisconnectDevice return false without an exception and leave the registry
\* and every device's connection state as they were; IsDeviceConnected is
\* false and GetDevice is null for such a name.
C25_UnknownNameFails ==
  /\ [](\A d \in Devices \ GetDeviceNames :
          ~IsDeviceConnected(d) /\ ManagerGetDevice(d) = 0)
  /\ []((mgrLastOp \in {"ConnectDevice", "DisconnectDevice"}
           /\ mgrDev \notin GetDeviceNames)
          => (mgrLastRet = "false" /\ mgrPc = "idle"))
  /\ [][(ByNameStep /\ mgrDev' \notin GetDeviceNames)
         => UNCHANGED <<m_deviceConfigs, namesVars, m_controllers,
                        devConnected, devState>>]_vars

\* C26: ConnectDevice(a) and DisconnectDevice(a), whatever they return, leave
\* every other device b as it was: its controller is neither created nor
\* destroyed, its connection state is the same, its poll thread runs or
\* not as before and its cache is not written.
C26_OtherDevicesUntouched ==
  [][ByNameStep =>
       \A b \in Devices \ {mgrDev'} :
          /\ devConnected'[b] = devConnected[b]
          /\ devState'[b] = devState[b]
          /\ (b \in m_controllers') = (b \in m_controllers)
          /\ IsDeviceConnected(b)' = IsDeviceConnected(b)
          /\ ManagerGetDevice(b)' = ManagerGetDevice(b)]_vars

C26_Witness ==
  /\ mgrLastOp = "DisconnectDevice"
  /\ wasConnected = {mgrDev}
  /\ ~IsDeviceConnected(mgrDev)
  /\ \E b \in Devices \ {mgrDev} :
        /\ IsDeviceConnected(b)
        /\ devState[b] = [thread |-> "running", cache |-> "seeded"]

\* C27: in hardware mode no operation of the stage manager, called by one
\* thread, locks m_devicesMutex while it holds it: every operation ends by
\* returning.
C27_NoRelock ==
  mgrKind = "PIhw" => (mgrPc # "hung" /\ mgrLastRet # "thrown")

-----------------------------------------------------------------------------
(* The order of hardware readings and cache writes.                         *)

\* C28: the poll cycle's write of a status reading taken before a move
\* command was sent does not clear the moving flag the move has set for its
\* axis.
C28_StaleStatusKeepsMoving ==
  [][(/\ PI_PollMovingWrite
      /\ sentSinceSample \in DOMAIN m_axisMoving
      /\ callerPc # "mvMark"
      /\ m_axisMoving[sentSinceSample])
       => m_axisMoving'[sentSinceSample]]_vars

\* C29: a gantry IsMoving is answered from the cache only with a value read
\* from the hardware for that axis within the staleness window: once the
\* window has run out since the last status update, and so for every cached
\* flag, IsMoving("X") followed at once by IsMoving("Y") queries the
\* hardware for both.
C29_CachedStatusIsFresh ==
  (/\ family = "ACS"
   /\ m_isConnected
   /\ statusAge >= m_statusUpdateInterval
   /\ {"X", "Y"} \subseteq DOMAIN m_axisMoving) =>
     \A d \in VendorCallMs :
        LET first  == ACS_IsMoving("X", TRUE, m_isConnected, m_axisMoving, statusAge, d)
            second == ACS_IsMoving("Y", TRUE, m_isConnected, first.map, first.age, d)
        IN  first.called /\ second.called

\* C30: Connect does not write its initial position reading after the poll
\* cycle has written a reading it took later.
C30_SeedNotAfterNewerPoll ==
  [][ConnectSeedWrite => seedRace # "written"]_vars

-----------------------------------------------------------------------------
(* SpecQueue: the gantry controller's pending-command queue.  Callers       *)
(* append commands before, while and after the controller is connected and  *)
(* the hardware takes or rejects moves; the poll loop runs the block that   *)
(* opens its cycle: lock m_commandMutex, MoveRelative for every command not *)
(* yet executed, erase the executed ones; then the rest of the cycle: the   *)
(* position read, the status pass of every third frame and the wait.  The   *)
(* controller is not disconnected again, a move the hardware has taken      *)
(* stays pending, and the servo query of the status pass is answered.       *)

\* commands appended in a run
MaxCommands == 3

\* the positions of the commands of q that are not executed
Pending(q) == {i \in 1..Len(q) : ~q[i].executed}

\* for (auto& cmd : m_commandQueue) if (!cmd.executed): the next command the
\* loop executes
NextPending(q) == CHOOSE i \in Pending(q) : \A j \in Pending(q) : i <= j

\* m_commandQueue.erase(std::remove_if(..., cmd.executed), end())
RemoveExecuted(q) == SelectSeq(q, LAMBDA c : ~c.executed)

\* MoveRelative(cmd.axis, cmd.distance, false) sends the move: connected, a
\* known axis, and the vendor calls succeed
QueuedMoveSent(conn, a, ok) == conn /\ ACS_GetAxisIndexValid(a) /\ ok

\* a caller appends a command under the queue's mutex
AppendCommand ==
  /\ m_commandMutex = "free"
  /\ appended < MaxCommands
  /\ \E a \in ArgAxes :
       m_commandQueue' = Append(m_commandQueue,
                                [id |-> appended + 1, axis |-> a, executed |-> FALSE])
  /\ appended' = appended + 1
  /\ UNCHANGED <<m_commandMutex, executedLog>>
  /\ UNCHANGED <<appVars, selfVars, regVars, stopVars, raceVars, mgrVars, connVars,
                 thrVars, cacheVars, pollVars, hwVars, callVars, waitVars,
                 retVars, obsVars>>

\* while (!m_terminateThread) { std::lock_guard lock(m_commandMutex);
QueueLock ==
  /\ family = "ACS"
  /\ pollPc = "top"
  /\ ~m_terminateThread
  /\ m_commandMutex = "free"
  /\ m_commandMutex' = "poll"
  /\ pollPc' = "cmds"
  /\ UNCHANGED <<m_commandQueue, appended, executedLog>>
  /\ UNCHANGED <<frameCounter, pollPositions, pollMoving, pollAxis, pollFlag>>
  /\ UNCHANGED <<appVars, selfVars, regVars, stopVars, raceVars, mgrVars, connVars,
                 thrVars, cacheVars, hwVars, callVars, waitVars, retVars,
                 obsVars>>

\* MoveRelative(cmd.axis, cmd.distance, false); cmd.executed = true;
QueueExecute ==
  /\ pollPc = "cmds"
  /\ Pending(m_commandQueue) # {}
  /\ LET i == NextPending(m_commandQueue)
         a == m_commandQueue[i].axis
     IN  /\ \E ok \in BOOLEAN :
              /\ CanSucceed(ok)
              /\ IF QueuedMoveSent(m_isConnected, a, ok)
                   THEN \E tgt \in Targets(a, TRUE) : HwAccept(a, tgt)
                   ELSE UNCHANGED hwVars
              /\ executedLog' =
                   Append(executedLog,
                          [id |-> m_commandQueue[i].id,
                           sent |-> QueuedMoveSent(m_isConnected, a, ok)])
         /\ m_commandQueue' = [m_commandQueue EXCEPT ![i].executed = TRUE]
  /\ UNCHANGED <<m_commandMutex, appended>>
  /\ UNCHANGED <<appVars, selfVars, regVars, stopVars, raceVars, mgrVars, connVars,
                 thrVars, cacheVars, pollVars, callVars, waitVars, retVars,
                 obsVars>>

\* the loop is over: erase the executed commands; the lock is released at
\* the end of the block and the iteration goes on
QueueErase ==
  /\ pollPc = "cmds"
  /\ Pending(m_commandQueue) = {}
  /\ m_commandQueue' = RemoveExecuted(m_commandQueue)
  /\ m_commandMutex' = "free"
  /\ pollPc' = "body"
  /\ UNCHANGED <<appended, executedLog>>
  /\ UNCHANGED <<frameCounter, pollPositions, pollMoving, pollAxis, pollFlag>>
  /\ UNCHANGED <<appVars, selfVars, regVars, stopVars, raceVars, mgrVars, connVars,
                 thrVars, cacheVars, hwVars, callVars, waitVars, retVars,
                 obsVars>>

\* the iteration after the queue's block: if (m_isConnected) { frameCounter++;
\* and the position read, else the wait at the end of the iteration
PollAfterQueue ==
  /\ pollPc = "body"
  /\ IF m_isConnected
       THEN /\ frameCounter' = (frameCounter + 1) % FrameMod
            /\ pollPc' = "posCall"
       ELSE /\ frameCounter' = frameCounter
            /\ pollPc' = "sleep"
  /\ UNCHANGED <<pollPositions, pollMoving, pollAxis, pollFlag>>
  /\ UNCHANGED <<ctlVars, connVars, thrVars, cacheVars, hwVars, callVars,
                 waitVars, retVars, obsVars>>

\* the rest of the gantry loop's iteration, from the connection test to the
\* wait that ends it
PollRestOfCycle ==
  \/ PollAfterQueue
  \/ PollPositionsCall
  \/ PollPositionsWrite
  \/ ACS_PollStatus
  \/ PollSleep

InitQueue == InitLife /\ family = "ACS"

NextQueue ==
  \/ AppendCommand
  \/ PollPrologue
  \/ QueueLock
  \/ QueueExecute
  \/ QueueErase
  \/ (PollRestOfCycle /\ ServoAnswered)
  \/ Connect
  \/ (ACS_ConnectEnable /\ EnableAccepted)
  \/ ConnectSeedCall
  \/ ConnectSeedWrite

SpecQueue == InitQueue /\ [][NextQueue]_vars

\* the poll thread is never stopped while the controller lives, no caller
\* keeps m_commandMutex, and every step of the iteration is taken in the end
SpecQueueLive ==
  /\ SpecQueue
  /\ WF_vars(PollPrologue)
  /\ WF_vars(QueueLock) /\ WF_vars(QueueExecute) /\ WF_vars(QueueErase)
  /\ WF_vars(PollRestOfCycle /\ ServoAnswered)

\* the ids of the commands of q, in order
QueueIds(q) == [i \in 1..Len(q) |-> q[i].id]

\* C31: the poll loop executes the pending commands in the order they were
\* appended, each exactly once, a command being executed when its move is
\* sent to the hardware; outside the loop's block no executed command is in
\* the queue; no appended command is lost, whenever it was appended; and
\* every appended command is executed in the end.
C31_QueueFifoOnce ==
  /\ [](\A i \in 1..Len(executedLog) :
          executedLog[i].id = i /\ executedLog[i].sent)
  /\ [](QueueIds(SelectSeq(m_commandQueue, LAMBDA c : ~c.executed))
          = [i \in 1..(appended - Len(executedLog)) |-> Len(executedLog) + i])
  /\ [](m_commandMutex = "free" => Pending(m_commandQueue) = DOMAIN m_commandQueue)
  /\ (m_commandQueue # <<>>) ~> (Len(executedLog) = appended)

\* C32: a command that has left the queue had its move sent to the hardware.
C32_NoSilentDrop ==
  \A i \in 1..Len(executedLog) :
     (\A j \in 1..Len(m_commandQueue) : m_commandQueue[j].id # executedLog[i].id)
        => executedLog[i].sent

-----------------------------------------------------------------------------
(* SpecSource: a manager of either family is constructed and initialized    *)
(* over a configuration source that supplies its records, has no readable   *)
(* file, or throws.                                                         *)

InitSource ==
  /\ cfgSource \in {"ok", "empty", "throws"}
  /\ mgrKind \in {"ACS", "PIhw", "PImock"}
  /\ cfgEnabled \in [Devices -> BOOLEAN]
  /\ cfgType \in [Devices -> Families]
  /\ cfgAxes = [d \in Devices |-> UsualAxes(cfgType[d])]
  /\ openOk = [d \in Devices |-> TRUE]
  /\ stopOk = [d \in Devices |-> TRUE]
  /\ ManagerConstructed
  /\ InitController
  /\ callsLeft = 0
  /\ HwAtRest
  /\ family = "ACS"
  /\ hwPos["X"] = 0

NextSource == Initialize \/ InitializeSteps \/ InitializeDefaults

SpecSource == InitSource /\ [][NextSource]_vars

\* C33: when the configuration source fails to supply the device records,
\* the registry of an initialized manager is the built-in default list of
\* its family.
C33_FallbackToDefaults ==
  (cfgSource # "ok" /\ mgrLastOp = "Initialize") =>
     GetDeviceNames = DefaultDevices(mgrKind)

-----------------------------------------------------------------------------
(* SpecIdle: one stage controller is connected and sent non-blocking moves  *)
(* to the position its axis already has, and WaitForMotionCompletion is     *)
(* called between the moves with the timeout 0; the hardware starts and     *)
(* ends its motions only while no call is in progress, so an axis that is   *)
(* idle when a wait begins is idle throughout the wait.                     *)

HwStartBetweenCalls == callerPc = "idle" /\ HwStart
HwFinishBetweenCalls == callerPc = "idle" /\ HwFinish

\* a non-blocking move that commands the target the axis already has
MoveInPlace == PI_MoveSend(FALSE) /\ hwTarget' = hwTarget

\* WaitForMotionCompletion(axis, 0)
WaitWithZeroTimeout == WaitForMotionCompletion /\ waitTimeout' = 0

\* the axis starts at position 0: the moves command the position it has,
\* whatever it is
InitIdle ==
  /\ InitController /\ NoManager /\ HwAtRest /\ family = "PI"
  /\ hwPos["X"] = 0
  /\ callsLeft = 0

NextIdle ==
  \/ Connect
  \/ PI_ConnectInitMaps
  \/ ConnectSeedCall
  \/ ConnectSeedWrite
  \/ MoveInPlace
  \/ PI_MoveMark
  \/ HwStartBetweenCalls
  \/ HwFinishBetweenCalls
  \/ WaitWithZeroTimeout
  \/ WaitEnter
  \/ PI_WaitReadCache
  \/ PI_WaitQuery
  \/ PI_WaitQueryStore
  \/ PI_WaitWrite
  \/ WaitSleep
  \/ PollTop
  \/ PollPositionsCall
  \/ PollPositionsWrite
  \/ PI_PollMovingCall
  \/ PI_PollMovingWrite
  \/ PI_PollServo
  \/ PollSleep

SpecIdle == InitIdle /\ [][NextIdle]_vars

\* the step in which a wait that entered its loop returns false
WaitTimesOut ==
  /\ callerPc \in {"wCheck", "wQuery"}
  /\ callerPc' = "idle"
  /\ lastRet' = "false"

\* C34: on the stage family a wait returns false by timeout only when the
\* hardware axis is not idle: a wait on an axis that is idle from its
\* beginning to its end does not time out, whatever the poll loop does.
C34_IdleAxisWaitSucceeds ==
  [][(WaitTimesOut /\ callAxis \in DOMAIN hwMotion)
        => hwMotion[callAxis] # "idle"]_vars

-----------------------------------------------------------------------------
(* GetPosition of the stage family, as a function of the cache and of the   *)
(* vendor's answer.                                                         *)

\* PIController::GetPosition(axis, position): not connected: false; a cached
\* value of the axis is returned; otherwise PI_qPOS for the axis, and on
\* success the cache takes the value
PI_GetPosition(a, ok, conn, map) ==
  IF ~conn
    THEN [ret |-> FALSE, value |-> 0, map |-> map, called |-> FALSE]
  ELSE IF a \in DOMAIN map
    THEN [ret |-> TRUE, value |-> map[a], map |-> map, called |-> FALSE]
  ELSE IF ok /\ a \in DOMAIN hwPos
    THEN [ret |-> TRUE, value |-> hwPos[a], map |-> Put(map, a, hwPos[a]),
          called |-> TRUE]
  ELSE [ret |-> FALSE, value |-> 0, map |-> map, called |-> TRUE]

\* the axes GetPosition is called with: one of the configured axes, one the
\* hardware has and the configuration may leave out, and one nobody has
PositionArgAxes == {"X", "U", UnknownAxis}

\* GetPosition returns ret, with value in its reference parameter when ret
\* is true
PositionReturns(a, ret, value) ==
  /\ lastOp' = "GetPosition"
  /\ lastAxis' = a
  /\ lastBlocking' = FALSE
  /\ lastRet' = Ret(ret)
  /\ lastTarget' = IF ret THEN value ELSE -1
  /\ ToIdle

\* PIController::GetPosition(axis, position) called: if (!m_isConnected)
\* return false; lock(m_mutex); a cached value of the axis is returned, else
\* the lock is released and the hardware is asked
GetPosition ==
  /\ callerPc = "idle"
  /\ family = "PI"
  /\ \E a \in PositionArgAxes :
       /\ Called("GetPosition", a, <<>>)
       /\ IF ~m_isConnected
            THEN PositionReturns(a, FALSE, -1)
          ELSE /\ m_mutex = "free"
               /\ IF PI_GetPosition(a, FALSE, TRUE, m_axisPositions).ret
                    THEN PositionReturns(a, TRUE, m_axisPositions[a])
                    ELSE QueryGoes("GetPosition", a, "gpQuery")
  /\ moveFresh' = "none"
  /\ UNCHANGED <<pollCallOnClosed, closedWhileAlive>>
  /\ UNCHANGED <<ctlVars, connVars, thrVars, cacheVars, pollVars, hwVars, waitVars>>

\* GetPosition, the vendor call, made with m_mutex free:
\* bool result = PI_qPOS(m_controllerId, axes, positions); on failure return
\* false.  The position read is kept in the local until it is stored.
GetPositionQuery ==
  /\ callerPc = "gpQuery"
  /\ \E ok \in BOOLEAN :
       /\ CanSucceed(ok)
       /\ ok => callAxis \in DOMAIN hwPos
       /\ IF ok
            THEN /\ callTarget' = hwPos[callAxis]
                 /\ callerPc' = "gpWrite"
                 /\ UNCHANGED <<callAxis, callBlocking, callOp, callPositions,
                                callSuccess>>
                 /\ UNCHANGED retVars
            ELSE PositionReturns(callAxis, FALSE, -1)
  /\ UNCHANGED <<ctlVars, connVars, thrVars, cacheVars, pollVars, hwVars,
                 waitVars, obsVars>>

\* GetPosition after a successful vendor call: position = positions[0];
\* lock(m_mutex); m_axisPositions[axis] = position; return true
GetPositionWrite ==
  /\ callerPc = "gpWrite"
  /\ m_mutex = "free"
  /\ m_axisPositions' = Put(m_axisPositions, callAxis, callTarget)
  /\ PositionReturns(callAxis, TRUE, callTarget)
  /\ UNCHANGED <<m_axisMoving, m_axisServoEnabled, statusAge>>
  /\ UNCHANGED <<ctlVars, connVars, thrVars, pollVars, hwVars, waitVars, obsVars>>

GetPositionSteps == GetPositionQuery \/ GetPositionWrite

-----------------------------------------------------------------------------
(* SpecPos: one stage controller, with the constructor's six axes or        *)
(* configured for the three axes of a record, is connected and              *)
(* disconnected in any order while GetPosition is called on it and its      *)
(* poll thread runs.                                                        *)

\* the axes of a stage controller: the constructor's, or those
\* ConfigureFromDevice takes from a record that installs X, Y and Z
PositionAxes == {DefaultAxes("PI"), <<"X", "Y", "Z">>}

InitPos ==
  /\ family = "PI"
  /\ \E axes \in PositionAxes : ConstructedWith(axes)
  /\ NoManager /\ HwAtRest /\ callsLeft = 0

NextPos ==
  \/ Connect
  \/ PI_ConnectInitMaps
  \/ ConnectSeedCall
  \/ ConnectSeedWrite
  \/ Disconnect
  \/ DisconnectSteps
  \/ GetPosition
  \/ GetPositionSteps
  \/ PollTop
  \/ PollPositionsCall
  \/ PollPositionsWrite
  \/ PI_PollMovingCall
  \/ PI_PollMovingWrite
  \/ PI_PollServo
  \/ PollSleep

SpecPos == InitPos /\ [][NextPos]_vars

\* C35: on the stage family a GetPosition that returns true yields the
\* position of the hardware axis (which does not move in SpecPos), never the
\* 0.0 that Connect puts into the cache before its first position read: for
\* every call that has returned, and for a call of axis X made between any
\* two operations of the calling thread.
C35_PositionIsFromHardware ==
  /\ (lastOp = "GetPosition" /\ lastRet = "true") => lastTarget = hwPos[lastAxis]
  /\ (family = "PI" /\ callerPc = "idle") =>
        \A ok \in BOOLEAN :
           LET r == PI_GetPosition("X", ok, m_isConnected, m_axisPositions)
           IN  (CanSucceed(ok) /\ r.ret) => r.value = hwPos["X"]

-----------------------------------------------------------------------------
\* C36: a device whose configuration record is disabled is never connected
\* by a manager that works on hardware: no Connect is called on it and it is
\* not reported connected.
C36_DisabledNeverConnected ==
  mgrKind # "PImock" =>
     \A d \in Devices :
        ~cfgEnabled[d] => (connectCalls[d] = 0 /\ ~IsDeviceConnected(d))

-----------------------------------------------------------------------------
(* The enumeration queries of a manager.                                    *)

\* HasDevice(deviceName): GetDevice(deviceName) != nullptr; the gantry
\* manager's own HasDevice looks the name up in m_controllers
HasDevice(d) == ManagerGetDevice(d) # 0

\* GetDeviceCount(): m_deviceNames.size() of the gantry manager; of the
\* stage manager m_deviceConfigs.size() in hardware mode and
\* m_mockDeviceNames.size() in mock mode
GetDeviceCount ==
  IF mgrKind = "ACS" THEN Cardinality(m_deviceNames)
  ELSE IF mgrKind = "PIhw" THEN Cardinality(DOMAIN m_deviceConfigs)
  ELSE Len(m_mockDeviceNames)

\* C37: HasDevice(name) is true exactly for the names GetDeviceNames()
\* lists, and GetDeviceCount() is the number of distinct names listed.
C37_EnumerationAgrees ==
  /\ \A d \in Devices : HasDevice(d) <=> d \in GetDeviceNames
  /\ GetDeviceCount = Cardinality(GetDeviceNames)

-----------------------------------------------------------------------------
\* C38: while Initialize() has not been called on a manager, none of its
\* devices is connected, and a ConnectAll or ConnectDevice that has ended
\* returned false.
C38_NoConnectBeforeInitialize ==
  ~m_isInitialized =>
     /\ \A d \in Devices : ~IsDeviceConnected(d)
     /\ mgrLastOp \in {"ConnectAll", "ConnectDevice"} => mgrLastRet = "false"

-----------------------------------------------------------------------------
(* SpecMotion: one controller is connected and then stopped, homed,         *)
(* scanned or has its servos switched, while its poll thread runs.  The     *)
(* axes a command set in motion move together.  SpecMulti has the moves of  *)
(* several axes at once.                                                    *)

\* every axis the vendor has taken a command for starts to be reported moving
HwStartAll ==
  /\ \E a \in DOMAIN hwMotion : hwMotion[a] = "accepted"
  /\ hwMotion' = [a \in DOMAIN hwMotion |->
                    IF hwMotion[a] = "accepted" THEN "moving" ELSE hwMotion[a]]
  /\ UNCHANGED <<hwPos, hwTarget, hwServo>>
  /\ UNCHANGED <<ctlVars, connVars, thrVars, cacheVars, pollVars, callVars,
                 waitVars, retVars, obsVars>>

\* every moving axis reaches its target and is idle again
HwFinishAll ==
  /\ \E a \in DOMAIN hwMotion : hwMotion[a] = "moving"
  /\ hwMotion' = [a \in DOMAIN hwMotion |->
                    IF hwMotion[a] = "moving" THEN "idle" ELSE hwMotion[a]]
  /\ hwPos' = [a \in DOMAIN hwPos |->
                 IF hwMotion[a] = "moving" THEN hwTarget[a] ELSE hwPos[a]]
  /\ UNCHANGED <<hwTarget, hwServo>>
  /\ UNCHANGED <<ctlVars, connVars, thrVars, cacheVars, pollVars, callVars,
                 waitVars, retVars, obsVars>>

\* the vendor takes one move command for the axes of the list axes, axes[i]
\* to pos[i]
HwAcceptAll(axes, pos) ==
  /\ hwTarget' = [a \in DOMAIN hwTarget |->
                    IF a \in Range(axes)
                      THEN pos[CHOOSE i \in DOMAIN axes :
                                 axes[i] = a /\ \A j \in DOMAIN axes : axes[j] = a => j <= i]
                      ELSE hwTarget[a]]
  /\ hwMotion' = [a \in DOMAIN hwMotion |->
                    IF a \in Range(axes) THEN "accepted" ELSE hwMotion[a]]
  /\ hwPos' = hwPos
  /\ hwServo' = hwServo

\* the vendor stops the axes of S where they are
HwHalt(S) ==
  /\ hwMotion' = [a \in DOMAIN hwMotion |-> IF a \in S THEN "idle" ELSE hwMotion[a]]
  /\ UNCHANGED <<hwPos, hwTarget, hwServo>>

\* the checks a single-axis command makes before it calls the vendor: if
\* (!m_isConnected) return false; gantry family: GetAxisIndex(axis) < 0:
\* return false
AxisCommandSent(a) ==
  m_isConnected /\ (family = "ACS" => ACS_GetAxisIndexValid(a))

\* StopAxis(axis): the checks, then PI_HLT / acsc_Halt; the vendor's result is
\* returned and nothing is written to the cache
StopAxis ==
  /\ callerPc = "idle"
  /\ \E a \in ArgAxes, ok \in BOOLEAN :
       /\ CanSucceed(ok)
       /\ ok => a \in HwAxes(family)
       /\ Called("other", "", IF AxisCommandSent(a)
                                THEN <<[call |-> "halt", ok |-> ok]>> ELSE <<>>)
       /\ IF AxisCommandSent(a) /\ ok THEN HwHalt({a}) ELSE UNCHANGED hwVars
       /\ Returns("StopAxis", a, FALSE, Ret(AxisCommandSent(a) /\ ok))
  /\ moveFresh' = "none"
  /\ UNCHANGED <<pollCallOnClosed, closedWhileAlive>>
  /\ MotionCall
  /\ UNCHANGED <<ctlFixed, connVars, thrVars, cacheVars, pollVars, callVars, waitVars>>

\* StopAllAxes(): if (!m_isConnected) return false; PI_STP / acsc_KillAll
StopAllAxes ==
  /\ callerPc = "idle"
  /\ \E ok \in BOOLEAN :
       /\ CanSucceed(ok)
       /\ Called("other", "", IF m_isConnected
                                THEN <<[call |-> "stop", ok |-> ok]>> ELSE <<>>)
       /\ IF m_isConnected /\ ok THEN HwHalt(DOMAIN hwMotion) ELSE UNCHANGED hwVars
       /\ Returns("StopAllAxes", "", FALSE, Ret(m_isConnected /\ ok))
  /\ moveFresh' = "none"
  /\ UNCHANGED <<pollCallOnClosed, closedWhileAlive>>
  /\ MotionCall
  /\ UNCHANGED <<ctlFixed, connVars, thrVars, cacheVars, pollVars, callVars, waitVars>>

\* EnableServo(axis, enable): the checks, then PI_SVO / acsc_Enable /
\* acsc_Disable; the vendor's result is returned and nothing is written to
\* the cache
EnableServo ==
  /\ callerPc = "idle"
  /\ \E a \in ArgAxes, enable \in BOOLEAN, ok \in BOOLEAN :
       /\ CanSucceed(ok)
       /\ ok => a \in HwAxes(family)
       /\ Called("other", "", IF AxisCommandSent(a)
                                THEN <<[call |-> "servo", ok |-> ok]>> ELSE <<>>)
       /\ hwServo' = IF AxisCommandSent(a) /\ ok
                       THEN [hwServo EXCEPT ![a] = enable] ELSE hwServo
       /\ Returns("EnableServo", a, FALSE, Ret(AxisCommandSent(a) /\ ok))
  /\ moveFresh' = "none"
  /\ UNCHANGED <<hwPos, hwMotion, hwTarget>>
  /\ UNCHANGED <<pollCallOnClosed, closedWhileAlive>>
  /\ MotionCall
  /\ UNCHANGED <<ctlFixed, connVars, thrVars, cacheVars, pollVars, callVars, waitVars>>

\* IsServoEnabled(axis, enabled) called by the calling thread: if
\* (!m_isConnected) return false; gantry family: GetAxisIndex(axis) < 0:
\* return false; stage family, a status update less than 200 ms old:
\* lock(m_mutex), and an entry of the axis is the answer; else the hardware is
\* asked
IsServoEnabled ==
  /\ callerPc = "idle"
  /\ \E a \in ArgAxes :
       /\ Called("other", "", <<>>)
       /\ IF ~m_isConnected \/ (family = "ACS" /\ ~ACS_GetAxisIndexValid(a))
            THEN QueryReturns("IsServoEnabled", a, "false")
          ELSE IF family = "PI" /\ statusAge < m_statusUpdateInterval
            THEN /\ m_mutex = "free"
                 /\ IF a \in DOMAIN m_axisServoEnabled
                      THEN QueryReturns("IsServoEnabled", a, "true")
                      ELSE QueryGoes("IsServoEnabled", a, "seQuery")
          ELSE QueryGoes("IsServoEnabled", a, "seQuery")
  /\ moveFresh' = "none"
  /\ UNCHANGED <<pollCallOnClosed, closedWhileAlive>>
  /\ MotionCall
  /\ UNCHANGED <<ctlFixed, connVars, thrVars, cacheVars, pollVars, hwVars, waitVars>>

\* IsServoEnabled, the vendor call, made with m_mutex free: acsc_GetMotorState
\* / PI_qSVO; on failure return false; the gantry family returns true on
\* success and stores nothing
IsServoEnabledQuery ==
  /\ callerPc = "seQuery"
  /\ \E ok \in BOOLEAN :
       /\ CanSucceed(ok)
       /\ ok => callAxis \in HwAxes(family)
       /\ IF ok /\ family = "PI"
            THEN QueryGoes("IsServoEnabled", callAxis, "seStore")
            ELSE QueryReturns("IsServoEnabled", callAxis, Ret(ok))
  /\ UNCHANGED <<ctlVars, connVars, thrVars, cacheVars, pollVars, hwVars,
                 waitVars, obsVars>>

\* stage family, IsServoEnabled after the query: lock(m_mutex);
\* m_axisServoEnabled[axis] = enabled; m_lastStatusUpdate = now (read when
\* IsServoEnabled began); return true.  The servo state changes only by
\* commands of the calling thread, so the answer is the state the axis has
\* when it is stored.
IsServoEnabledStore ==
  /\ callerPc = "seStore"
  /\ m_mutex = "free"
  /\ m_axisServoEnabled' = Put(m_axisServoEnabled, callAxis, HwServoOn(callAxis))
  /\ StampedBeforeCall
  /\ QueryReturns("IsServoEnabled", callAxis, "true")
  /\ UNCHANGED <<m_axisPositions, m_axisMoving>>
  /\ UNCHANGED <<ctlVars, connVars, thrVars, pollVars, hwVars, waitVars, obsVars>>

IsServoEnabledSteps == IsServoEnabledQuery \/ IsServoEnabledStore

\* the axis lists and position lists the multi-axis move is called with
ArgAxisLists == {<<>>, <<"X">>, <<"X", "Y">>, <<"X", UnknownAxis>>}
ArgPositionLists == {<<>>, <<1>>, <<1, 0>>}

\* the wait of a command that waits for its axes begins: the first axis now,
\* the others after it
WaitForAxes(op, axes, blocking) ==
  /\ callerPc' = "wEnter"
  /\ callAxis' = Head(axes)
  /\ waitAxes' = Tail(axes)
  /\ callBlocking' = blocking
  /\ callTarget' = -1
  /\ callOp' = op
  /\ waitTimeout' = DefaultTimeoutMs
  /\ waitElapsed' = 0
  /\ checkCount' = 0
  /\ stillMoving' = FALSE
  /\ UNCHANGED <<callPositions, callSuccess>>
  /\ Busy

\* MoveToPositionMultiAxis(axes, positions, blocking): if (!m_isConnected)
\* return false; sizes differ or axes.empty(): return false; gantry family:
\* an axis without index: return false; PI_MOV on the joined names /
\* acsc_ToPointM and acsc_GoM; blocking: WaitForMotionCompletion on every axis
\* in turn, true when all returned true.  Nothing is written to the cache.
MoveToPositionMultiAxis ==
  /\ callerPc = "idle"
  /\ \E axes \in ArgAxisLists, pos \in ArgPositionLists, blocking \in BOOLEAN,
        ok \in BOOLEAN :
       LET sent == /\ m_isConnected
                   /\ Len(axes) = Len(pos)
                   /\ axes # <<>>
                   /\ family = "ACS" =>
                        \A i \in DOMAIN axes : ACS_GetAxisIndexValid(axes[i])
       IN  /\ CanSucceed(ok)
           /\ ok => Range(axes) \subseteq HwAxes(family)
           /\ Called("other", "", IF sent THEN <<[call |-> "move", ok |-> ok]>>
                                          ELSE <<>>)
           /\ IF sent /\ ok
                THEN /\ HwAcceptAll(axes, pos)
                     /\ IF blocking
                          THEN WaitForAxes("MoveToPositionMultiAxis", axes, TRUE)
                          ELSE /\ Returns("MoveToPositionMultiAxis", Head(axes),
                                          FALSE, "true")
                               /\ UNCHANGED <<callVars, waitVars>>
                ELSE /\ UNCHANGED <<hwVars, callVars, waitVars>>
                     /\ Returns("MoveToPositionMultiAxis", "", blocking, "false")
  /\ moveFresh' = "none"
  /\ UNCHANGED <<pollCallOnClosed, closedWhileAlive>>
  /\ MotionCall
  /\ UNCHANGED <<ctlFixed, connVars, thrVars, cacheVars, pollVars>>

\* the six names MoveToPositionAll commands and waits for
PI_AllAxes == <<"X", "Y", "Z", "U", "V", "W">>

\* stage family MoveToPositionAll(x, y, z, u, v, w, blocking): if
\* (!m_isConnected) return false; PI_MOV("X Y Z U V W"); blocking:
\* WaitForMotionCompletion on X, Y, Z, U, V, W in turn.  The positions passed
\* are x for X and the positions the other axes have.
MoveToPositionAll ==
  /\ callerPc = "idle"
  /\ family = "PI"
  /\ \E x \in 0..MaxPos, blocking \in BOOLEAN, ok \in BOOLEAN :
       /\ CanSucceed(ok)
       /\ Called("other", "", IF m_isConnected
                                THEN <<[call |-> "move", ok |-> ok]>> ELSE <<>>)
       /\ IF m_isConnected /\ ok
            THEN /\ HwAcceptAll(PI_AllAxes,
                                [i \in 1..6 |-> IF i = 1 THEN x ELSE hwPos[PI_AllAxes[i]]])
                 /\ IF blocking
                      THEN WaitForAxes("MoveToPositionAll", PI_AllAxes, TRUE)
                      ELSE /\ Returns("MoveToPositionAll", "", FALSE, "true")
                           /\ UNCHANGED <<callVars, waitVars>>
            ELSE /\ UNCHANGED <<hwVars, callVars, waitVars>>
                 /\ Returns("MoveToPositionAll", "", blocking, "false")
  /\ moveFresh' = "none"
  /\ UNCHANGED <<pollCallOnClosed, closedWhileAlive>>
  /\ MotionCall
  /\ UNCHANGED <<ctlFixed, connVars, thrVars, cacheVars, pollVars>>

\* the home position of an axis, where a reference move ends
HomePosition == 0

\* HomeAxis(axis): the checks; stage family: PI_FRF, on failure return false;
\* gantry family: acsc_FaultClear, whose failure is logged and no motion is
\* commanded; then return WaitForMotionCompletion(axis)
HomeAxis ==
  /\ callerPc = "idle"
  /\ \E a \in ArgAxes, ok \in BOOLEAN :
       /\ CanSucceed(ok)
       /\ ok => a \in HwAxes(family)
       /\ Called("other", "", IF AxisCommandSent(a)
                                THEN <<[call |-> "home", ok |-> ok]>> ELSE <<>>)
       /\ IF AxisCommandSent(a) /\ (family = "ACS" \/ ok)
            THEN /\ IF family = "PI" THEN HwAccept(a, HomePosition)
                                     ELSE UNCHANGED hwVars
                 /\ WaitForAxes("HomeAxis", <<a>>, FALSE)
            ELSE /\ UNCHANGED <<hwVars, callVars, waitVars>>
                 /\ Returns("HomeAxis", a, FALSE, "false")
  /\ moveFresh' = "none"
  /\ UNCHANGED <<pollCallOnClosed, closedWhileAlive>>
  /\ MotionCall
  /\ UNCHANGED <<ctlFixed, connVars, thrVars, cacheVars, pollVars>>

\* stage family, PI_GOH(m_controllerId, names) of Home, HomeAll and HomeAxes:
\* if (!IsConnected()) return false; empty (the name or list is empty):
\* return false; the vendor's result is returned without a wait
PI_GoHome(op, axes, empty) ==
  /\ callerPc = "idle"
  /\ family = "PI"
  /\ \E ok \in BOOLEAN :
       /\ CanSucceed(ok)
       /\ ok => Range(axes) \subseteq HwAxes("PI")
       /\ Called("other", "", IF m_isConnected /\ ~empty
                                THEN <<[call |-> "home", ok |-> ok]>> ELSE <<>>)
       /\ IF m_isConnected /\ ~empty /\ ok
            THEN HwAcceptAll(axes, [i \in DOMAIN axes |-> HomePosition])
            ELSE UNCHANGED hwVars
       /\ Returns(op, IF axes = <<>> THEN "" ELSE Head(axes), FALSE,
                  Ret(m_isConnected /\ ~empty /\ ok))
  /\ moveFresh' = "none"
  /\ UNCHANGED <<pollCallOnClosed, closedWhileAlive>>
  /\ MotionCall
  /\ UNCHANGED <<ctlFixed, connVars, thrVars, cacheVars, pollVars, callVars, waitVars>>

\* stage family Home(axis): axis.empty(): return false; PI_GOH on the axis
Home == \E a \in ArgAxes \cup {""} :
          PI_GoHome("Home", IF a = "" THEN <<>> ELSE <<a>>, a = "")

\* stage family HomeAll(): PI_GOH with the empty string homes every axis
HomeAll == PI_GoHome("HomeAll", PI_AllAxes, FALSE)

\* stage family HomeAxes(axes): axes.empty(): return false; PI_GOH on the
\* joined names
HomeAxes == \E axes \in ArgAxisLists : PI_GoHome("HomeAxes", axes, axes = <<>>)

\* the axis pairs a scan is called with
ArgScanAxes == {<<"X", "Y">>, <<"X", UnknownAxis>>}

\* stage family FSA, FSC and FSM(axis1, length1, axis2, length2, ...): if
\* (!m_isConnected) return false; PI_FSA / PI_FSC / PI_FSM starts the scan of
\* the two axes and the vendor's result is returned without a wait.  Nothing
\* is written to the cache.  The scan takes axis1 to the position where the
\* signal is best, any position of the range, and axis2 back to where it is.
PI_Scan(op) ==
  /\ callerPc = "idle"
  /\ family = "PI"
  /\ \E axes \in ArgScanAxes, p \in 0..MaxPos, ok \in BOOLEAN :
       /\ CanSucceed(ok)
       /\ ok => Range(axes) \subseteq HwAxes("PI")
       /\ Called("other", "", IF m_isConnected
                                THEN <<[call |-> "scan", ok |-> ok]>> ELSE <<>>)
       /\ IF m_isConnected /\ ok
            THEN HwAcceptAll(axes, <<p, hwPos[axes[2]]>>)
            ELSE UNCHANGED hwVars
       /\ Returns(op, Head(axes), FALSE, Ret(m_isConnected /\ ok))
  /\ moveFresh' = "none"
  /\ UNCHANGED <<pollCallOnClosed, closedWhileAlive>>
  /\ MotionCall
  /\ UNCHANGED <<ctlFixed, connVars, thrVars, cacheVars, pollVars, callVars, waitVars>>

FSA == PI_Scan("FSA")
FSC == PI_Scan("FSC")
FSM == PI_Scan("FSM")

\* the vendor takes PI_DFH for an axis: the position the axis has becomes its
\* home position
HwDefineHome(a) ==
  /\ hwPos' = [hwPos EXCEPT ![a] = HomePosition]
  /\ hwTarget' = [hwTarget EXCEPT ![a] = HomePosition]
  /\ UNCHANGED <<hwMotion, hwServo>>

\* PI_DFH succeeds only for an axis the controller has, at rest
DefineHomeTaken(a, ok) == ok => (a \in HwAxes("PI") /\ hwMotion[a] = "idle")

\* stage family DefineHome(axis): if (!IsConnected()) return false;
\* axis.empty(): return false; PI_DFH(m_controllerId, axis), whose result is
\* returned
DefineHome ==
  /\ callerPc = "idle"
  /\ family = "PI"
  /\ \E a \in ArgAxes \cup {""}, ok \in BOOLEAN :
       LET sent == m_isConnected /\ a # ""
       IN  /\ CanSucceed(ok)
           /\ DefineHomeTaken(a, ok)
           /\ Called("other", "", IF sent THEN <<[call |-> "dfh", ok |-> ok]>>
                                          ELSE <<>>)
           /\ IF sent /\ ok THEN HwDefineHome(a) ELSE UNCHANGED hwVars
           /\ Returns("DefineHome", a, FALSE, Ret(sent /\ ok))
  /\ moveFresh' = "none"
  /\ UNCHANGED <<pollCallOnClosed, closedWhileAlive>>
  /\ MotionCall
  /\ UNCHANGED <<ctlFixed, connVars, thrVars, cacheVars, pollVars, callVars, waitVars>>

\* stage family DefineHomeAll(): if (!IsConnected()) return false; axes =
\* GetAvailableAxes(); success = true; then the loop over the axes
DefineHomeAll ==
  /\ callerPc = "idle"
  /\ family = "PI"
  /\ Called("other", "", <<>>)
  /\ IF m_isConnected /\ m_availableAxes # <<>>
       THEN /\ callerPc' = "dfhCall"
            /\ callOp' = "DefineHomeAll"
            /\ callAxis' = Head(m_availableAxes)
            /\ waitAxes' = Tail(m_availableAxes)
            /\ callSuccess' = TRUE
            /\ UNCHANGED <<callBlocking, callTarget, callPositions>>
            /\ UNCHANGED <<waitTimeout, waitElapsed, checkCount, stillMoving>>
            /\ Busy
       ELSE /\ Returns("DefineHomeAll", "", FALSE, Ret(m_isConnected))
            /\ UNCHANGED <<callVars, waitVars>>
  /\ moveFresh' = "none"
  /\ UNCHANGED <<pollCallOnClosed, closedWhileAlive>>
  /\ MotionCall
  /\ UNCHANGED <<ctlFixed, connVars, thrVars, cacheVars, pollVars, hwVars>>

\* DefineHomeAll, the loop: PI_DFH(m_controllerId, axis); on failure success =
\* false and the loop goes on; after the last axis return success
DefineHomeAllStep ==
  /\ callerPc = "dfhCall"
  /\ \E ok \in BOOLEAN :
       /\ CanSucceed(ok)
       /\ DefineHomeTaken(callAxis, ok)
       /\ hwIssued' = Append(hwIssued, [call |-> "dfh", ok |-> ok])
       /\ IF ok THEN HwDefineHome(callAxis) ELSE UNCHANGED hwVars
       /\ IF waitAxes = <<>>
            THEN /\ Returns("DefineHomeAll", "", FALSE, Ret(callSuccess /\ ok))
                 /\ ToIdle
                 /\ UNCHANGED waitVars
            ELSE /\ callAxis' = Head(waitAxes)
                 /\ waitAxes' = Tail(waitAxes)
                 /\ callSuccess' = (callSuccess /\ ok)
                 /\ UNCHANGED <<callerPc, callBlocking, callOp, callTarget,
                                callPositions>>
                 /\ UNCHANGED <<waitTimeout, waitElapsed, checkCount, stillMoving>>
                 /\ UNCHANGED retVars
  /\ UNCHANGED <<pollCallOnClosed, closedWhileAlive, moveFresh, preConnected,
                 openIssued, preFresh, preDisconnect>>
  /\ UNCHANGED <<ctlVars, connVars, thrVars, cacheVars, pollVars>>

InitMotion ==
  /\ InitController /\ NoManager /\ (HwAtRest \/ HwInMotion) /\ hwPos["X"] = 0
  /\ callsLeft = MaxMotionCalls

NextMotion ==
  \/ Connect
  \/ ConnectStepsAccepted
  \/ WithinCalls(StopAxis)
  \/ WithinCalls(StopAllAxes)
  \/ WithinCalls(EnableServo)
  \/ WithinCalls(IsServoEnabled)
  \/ IsServoEnabledSteps
  \/ WithinCalls(HomeAxis)
  \/ WithinCalls(Home)
  \/ WithinCalls(HomeAll)
  \/ WithinCalls(HomeAxes)
  \/ WithinCalls(FSA)
  \/ WithinCalls(FSC)
  \/ WithinCalls(FSM)
  \/ WithinCalls(DefineHome)
  \/ WithinCalls(DefineHomeAll)
  \/ DefineHomeAllStep
  \/ WaitEnter
  \/ PI_WaitReadCache
  \/ PI_WaitQuery
  \/ PI_WaitQueryStore
  \/ PI_WaitWrite
  \/ ACS_WaitCheck
  \/ ACS_WaitQuery
  \/ ACS_WaitStore
  \/ BoundedWaitSleep
  \/ HwStartAll
  \/ HwFinishAll
  \/ CommunicationThreadFunc

SpecMotion == InitMotion /\ [][NextMotion]_vars

\* SpecMulti: one controller at rest is connected and moved with one move of
\* several axes, blocking or not, while its poll thread runs and the
\* hardware carries the motion out.
InitMulti ==
  /\ InitController /\ NoManager /\ HwAtRest /\ hwPos["X"] = 0
  /\ callsLeft = MaxMotionCalls

NextMulti ==
  \/ Connect
  \/ ConnectStepsAccepted
  \/ WithinCalls(MoveToPositionMultiAxis)
  \/ WithinCalls(MoveToPositionAll)
  \/ WaitEnter
  \/ PI_WaitReadCache
  \/ PI_WaitQuery
  \/ PI_WaitQueryStore
  \/ PI_WaitWrite
  \/ ACS_WaitCheck
  \/ ACS_WaitQuery
  \/ ACS_WaitStore
  \/ BoundedWaitSleep
  \/ HwStartAll
  \/ HwFinishAll
  \/ CommunicationThreadFunc

SpecMulti == InitMulti /\ [][NextMulti]_vars

-----------------------------------------------------------------------------
(* SpecApp: the application creates and initializes a manager (the stage    *)
(* manager in hardware mode, or the gantry manager), starts the detached    *)
(* thread that calls ConnectAll on it, and runs Cleanup on its main thread. *)

\* InitializeMotionManagers on the main thread: manager->Initialize()
AppInitialize ==
  mgrLastOp = "none" /\ hwThreadPc = "unborn" /\ cleanupPc = "none" /\ Initialize

\* what the steps of the application leave alone in the controller
appRest == <<selfVars, regVars, stopVars, raceVars, queueVars, connVars,
             thrVars, cacheVars, pollVars, hwVars, callVars, waitVars,
             retVars, obsVars>>

\* what the steps of Cleanup leave alone in the manager
cleanupRest == <<envVars, m_isInitialized, m_deviceConfigs, namesVars, mgrPc,
                 mgrTodo, allSuccess, mgrLastOp, mgrLastRet, connectCalls,
                 wasConnected, mgrDev>>

\* InitializeMotionManagers, Initialize having returned:
\* std::thread hardwareThread([this]() { ... }); hardwareThread.detach()
AppStartThread ==
  /\ hwThreadPc = "unborn"
  /\ mgrLastOp = "Initialize"
  /\ mgrPc = "idle"
  /\ hwThreadPc' = "born"
  /\ UNCHANGED <<mgrVars, appRest, cleanupPc, cleanupTodo>>

\* the manager object exists: Cleanup has not reset the pointer to it
ManagerAlive == cleanupPc # "released"

\* hardwareThread: if (manager), read with nothing that orders it with the
\* reset of Cleanup
HardwareThreadTest ==
  /\ hwThreadPc = "born"
  /\ hwThreadPc' = IF ManagerAlive THEN "calling" ELSE "done"
  /\ UNCHANGED <<mgrVars, appRest, cleanupPc, cleanupTodo>>

\* hardwareThread: manager->ConnectAll() is entered; it has not been before
\* (the last call the manager saw is Initialize), and Cleanup may be anywhere
\* short of the reset
HardwareThreadConnectAll ==
  /\ hwThreadPc = "calling"
  /\ mgrLastOp = "Initialize"
  /\ ManagerAlive
  /\ ConnectAllBegin

\* hardwareThread: the loop of ConnectAll and its return
HardwareThreadConnectAllSteps ==
  /\ hwThreadPc = "calling"
  /\ ManagerAlive
  /\ (ACS_ConnectAllStep \/ PIhw_ConnectAllStep \/ ConnectAllEnd)

\* hardwareThread: ConnectAll is to be entered, or goes on, over a manager
\* that Cleanup has destroyed: the members it reads are freed memory, and
\* the call ends in any way
HardwareThreadUseAfterRelease ==
  /\ hwThreadPc = "calling"
  /\ ~ManagerAlive
  /\ mgrLastOp \in {"Initialize", "busy"}
  /\ mgrPc # "hung"
  /\ usedAfterFree' = TRUE
  /\ \E ret \in {"true", "false", "thrown"} : MgrReturns("ConnectAll", ret)
  /\ UNCHANGED <<envVars, m_isInitialized, m_deviceConfigs, namesVars,
                 m_controllers, devConnected, devState, m_devicesMutex,
                 allSuccess, connectCalls, disconnectCalls, wasConnected,
                 mgrDev>>
  /\ UNCHANGED <<m_realDevices, destroyed, thrPc, thrDev, thrPtr, thrCfg,
                 selfVars, stopVars, raceVars, queueVars, appVars, connVars,
                 thrVars, cacheVars, pollVars, hwVars, callVars, waitVars,
                 retVars, obsVars>>

\* Cleanup on the main thread, InitializeMotionManagers having returned:
\* if (m_piManager) m_piManager->StopAllDevices(), whose
\* GetConnectedDeviceNames takes m_devicesMutex in hardware mode.  The stage
\* manager holds no controller here, its ConnectAll having met the lock it
\* holds.  Nothing waits for the hardware thread
CleanupStopAllDevices ==
  /\ cleanupPc = "none"
  /\ hwThreadPc # "unborn"
  /\ mgrKind = "PIhw" => m_devicesMutex = "free"
  /\ cleanupPc' = "stopped"
  /\ UNCHANGED <<mgrVars, appRest, cleanupTodo, hwThreadPc>>

\* Cleanup: manager->DisconnectAll() is entered, whatever the hardware thread
\* is doing: the stage manager takes m_devicesMutex and lists m_realDevices,
\* the gantry manager begins its loop over m_controllers with no lock
CleanupDisconnectAll ==
  /\ cleanupPc = "stopped"
  /\ mgrKind = "PIhw" => m_devicesMutex = "free"
  /\ cleanupPc' = "discAll"
  /\ cleanupTodo' = m_controllers
  /\ disconnectCalls' = [d \in Devices |-> 0]
  /\ m_devicesMutex' = IF mgrKind = "PIhw" THEN "held" ELSE m_devicesMutex
  /\ UNCHANGED <<cleanupRest, m_controllers, devConnected, devState, appRest,
                 hwThreadPc>>

\* Cleanup: one pass of the loop of the gantry manager's DisconnectAll:
\* controller->Disconnect(), between any two Connect calls of the hardware
\* thread
CleanupDisconnectStep ==
  /\ cleanupPc = "discAll"
  /\ mgrKind = "ACS"
  /\ cleanupTodo # {}
  /\ LET d == NextEntry(cleanupTodo)
         r == DeviceDisconnect(devConnected[d], stopOk[d])
     IN  /\ cleanupTodo' = cleanupTodo \ {d}
         /\ disconnectCalls' = [disconnectCalls EXCEPT ![d] = @ + 1]
         /\ devConnected' = [devConnected EXCEPT ![d] = r.conn]
         /\ devState' = [devState EXCEPT ![d] =
                           UnitAfterDisconnect(mgrKind, @, devConnected[d])]
  /\ UNCHANGED <<cleanupRest, m_controllers, m_devicesMutex, appRest,
                 cleanupPc, hwThreadPc>>

\* Cleanup: DisconnectAll returns, the lock released; sleep_for(500 ms)
CleanupDisconnectAllEnd ==
  /\ cleanupPc = "discAll"
  /\ cleanupTodo = {}
  /\ cleanupPc' = "disconnected"
  /\ m_devicesMutex' = IF mgrKind = "PIhw" THEN "free" ELSE m_devicesMutex
  /\ UNCHANGED <<cleanupRest, m_controllers, devConnected, devState,
                 disconnectCalls, appRest, cleanupTodo, hwThreadPc>>

\* Cleanup: Services::Clear(); m_piManager.reset(); m_acsManager.reset(): the
\* manager is destroyed, and with it every controller it holds; the stage
\* manager's destructor runs DisconnectAll, which takes m_devicesMutex
CleanupRelease ==
  /\ cleanupPc = "disconnected"
  /\ mgrKind = "PIhw" => m_devicesMutex = "free"
  /\ cleanupPc' = "released"
  /\ m_controllers' = {}
  /\ devConnected' = [d \in Devices |-> FALSE]
  /\ devState' = [d \in Devices |-> UnitNone]
  /\ UNCHANGED <<cleanupRest, m_devicesMutex, disconnectCalls, appRest,
                 cleanupTodo, hwThreadPc>>

InitApp == InitMgr /\ mgrKind \in {"ACS", "PIhw"}

NextApp ==
  \/ AppInitialize
  \/ InitializeSteps
  \/ AppStartThread
  \/ HardwareThreadTest
  \/ HardwareThreadConnectAll
  \/ HardwareThreadConnectAllSteps
  \/ HardwareThreadUseAfterRelease
  \/ CleanupStopAllDevices
  \/ CleanupDisconnectAll
  \/ CleanupDisconnectStep
  \/ CleanupDisconnectAllEnd
  \/ CleanupRelease

SpecApp == InitApp /\ [][NextApp]_vars

\* C39: while the hardware thread is executing ConnectAll on the manager,
\* Cleanup has neither disconnected nor released the manager, and the thread
\* never uses a manager that has been destroyed.
C39_CleanupWaitsForConnectThread ==
  /\ mgrPc = "connAll" => cleanupPc \in {"none", "stopped"}
  /\ ~usedAfterFree

=============================================================================
